---- MODULE Spec2Model ----
(***************************************************************************)
(* A model of the decision core of ai-automl-app: the Insight Generator    *)
(* (backend/app/agents/ai_insights_agent.py) with its file cache and       *)
(* fallback policy, the Orchestrator (orchestrator_agent.py) and the       *)
(* column alignment of the evaluation agent (evaluation_agent.py).         *)
(*                                                                         *)
(* Texts are sequences of one-symbol strings; the end-of-sequence marker   *)
(* "</s>" is one symbol.  The file system is reliable in these             *)
(* specifications: a file that exists can be read and a write succeeds.    *)
(***************************************************************************)
EXTENDS Integers, Sequences, FiniteSets, TLC

VARIABLES
    cache,      \* the ai_cache directory: cache file name -> file content
    last,       \* the record of the generate_ai_insights call just made, or NoCall
    run,        \* history of a sequence of repeated calls for one cache key
    agent,      \* the OrchestratorAgent's two thresholds
    files,      \* the model files on disk: <<folder, file name>>
    clock,      \* the time in whole seconds: int(time.time())
    decision,   \* what the decide_next_steps call just made returned
    trace,      \* the stages that call invoked, in order
    evaluation, \* the record of the evaluate_model call just made, or NoEvaluation
    store,      \* the dataset files on disk: <<folder, stem>> -> the frame saved
    resolution, \* how the route call just made resolved its dataset id
    saves,      \* the snapshot saves made so far, in order
    uuids,      \* how many values uuid.uuid4() has given so far
    reset,      \* the record of the restart_analysis calls made so far
    training,   \* the record of the train_and_evaluate_models call just made
    calls,      \* the concurrent generate_ai_insights calls: where each one stands
    writes,     \* the calls that wrote a cache file in this round, in order
    runs,       \* the concurrent train_and_evaluate_models calls: where each one stands
    contents,   \* artifact file -> the run whose joblib.dump wrote it last
    dumps       \* the artifact writes of this round, in order

orch == <<agent, files, clock, decision, trace>>

datasets == <<store, resolution, saves, uuids>>

repository == <<reset, training>>

concurrent == <<calls, writes, runs, contents, dumps>>

vars == <<cache, last, run, orch, evaluation, datasets, repository, concurrent>>

(***************************************************************************)
(* Text helpers: str.strip() and clean_response.                           *)
(***************************************************************************)

\* the whitespace symbols (\s)
Whitespace == {" ", "\n"}

\* the symbols of the class [A-Z_]
UpperOrUnderscore == {"T", "_"}

\* the end-of-sequence marker </s>
EOS == "</s>"

RECURSIVE LStrip(_)
LStrip(s) ==
    IF s = <<>> THEN <<>>
    ELSE IF Head(s) \in Whitespace THEN LStrip(Tail(s)) ELSE s

RECURSIVE RStrip(_)
RStrip(s) ==
    IF s = <<>> THEN <<>>
    ELSE IF s[Len(s)] \in Whitespace THEN RStrip(SubSeq(s, 1, Len(s) - 1)) ELSE s

\* str.strip()
Strip(s) == RStrip(LStrip(s))

RECURSIVE UpperRun(_, _)
\* the length of the longest run of [A-Z_] symbols of s starting at i
UpperRun(s, i) ==
    IF i <= Len(s) /\ s[i] \in UpperOrUnderscore THEN 1 + UpperRun(s, i + 1) ELSE 0

\* the length of the match of \[/?[A-Z_]+\] at position i of s, 0 when none
TokenLen(s, i) ==
    IF i > Len(s) \/ s[i] # "[" THEN 0
    ELSE LET j == IF i + 1 <= Len(s) /\ s[i + 1] = "/" THEN i + 2 ELSE i + 1
             n == UpperRun(s, j)
         IN  IF n >= 1 /\ j + n <= Len(s) /\ s[j + n] = "]" THEN (j + n) - i + 1 ELSE 0

RECURSIVE DropTokens(_, _)
\* re.sub(r'\[/?[A-Z_]+\]', '', s), scanning from position i
DropTokens(s, i) ==
    IF i > Len(s) THEN <<>>
    ELSE LET n == TokenLen(s, i)
         IN  IF n > 0 THEN DropTokens(s, i + n) ELSE <<s[i]>> \o DropTokens(s, i + 1)

RECURSIVE DropEOS(_)
\* re.sub(r'</s>', '', s)
DropEOS(s) ==
    IF s = <<>> THEN <<>>
    ELSE IF Head(s) = EOS THEN DropEOS(Tail(s)) ELSE <<Head(s)>> \o DropEOS(Tail(s))

RECURSIVE CollapseWhitespace(_)
\* re.sub(r'\s+', ' ', s)
CollapseWhitespace(s) ==
    IF s = <<>> THEN <<>>
    ELSE IF Head(s) \in Whitespace
         THEN <<" ">> \o CollapseWhitespace(LStrip(s))
         ELSE <<Head(s)>> \o CollapseWhitespace(Tail(s))

clean_response(raw_response) ==
    Strip(CollapseWhitespace(DropEOS(DropTokens(raw_response, 1))))

(***************************************************************************)
(* The Insight Generator: ai_insights_agent.py.                            *)
(***************************************************************************)

AVAILABLE_MODELS == {"mistral", "gemma2", "llama3.3", "llama2", "gpt-4"}

\* the combined summary is cut at chunk_threshold symbols and marked
CombinedSummary(eda_summary, model_summary, chunk_threshold) ==
    LET combined == <<"EDA Summary:">> \o eda_summary
                    \o <<"Model Training Summary:">> \o model_summary
    IN  IF Len(combined) > chunk_threshold
        THEN SubSeq(combined, 1, chunk_threshold) \o <<"[TRUNCATED FOR LENGTH]">>
        ELSE combined

BuildPrompt(eda_summary, model_summary, chunk_threshold, enable_cot) ==
    <<"You are an AI assistant ...">>
    \o CombinedSummary(eda_summary, model_summary, chunk_threshold)
    \o <<"Outline: 1) General Insights 2) Model Performance 3) Recommendations">>
    \o (IF enable_cot THEN <<"include your chain-of-thought">> ELSE <<>>)
    \o <<"Think step by step.">>

\* md5 of "model_choice:prompt", taken to be free of collisions
get_cache_filename(prompt, model_choice) == <<model_choice, prompt>>

\* the content of cache file f as a sequence of at most one entry
FileAt(c, f) == IF f \in DOMAIN c THEN <<c[f]>> ELSE <<>>

\* variant: the entry stays until a new text replaces it
RemoveFileLater(c, f) == c

\* os.remove(f)
RemoveFile(c, f) == [x \in DOMAIN c \ {f} |-> c[x]]

\* variant: the entry is written under the key of the fallback model
WriteUnderFallbackKey(c, f, insights) ==
    [x \in DOMAIN c \cup {<<"mistral", f[2]>>} |->
        IF x = <<"mistral", f[2]>> THEN [insights |-> insights] ELSE c[x]]

\* json.dump({"insights": insights}, open(f, "w"))
WriteFile(c, f, insights) ==
    [x \in DOMAIN c \cup {f} |-> IF x = f THEN [insights |-> insights] ELSE c[x]]

\* "requires more system memory" in str(e)
MemorySignal == "model requires more system memory"
HasMemorySignal(e) == e.msg = MemorySignal

\* an exception raised by the n-th ollama.chat call of an invocation
BackendError(msg, n) == [type |-> "BackendError", msg |-> msg, attempt |-> n]
ValueError(msg) == [type |-> "ValueError", msg |-> msg, attempt |-> 0]

\* what one ollama.chat call does: it raises, or returns a response
Raises(msg) ==
    [raises |-> TRUE, msg |-> msg, kind |-> "none",
     has_response |-> FALSE, response |-> <<>>, has_content |-> FALSE, content |-> <<>>]
DictResponse(has_response, response, has_content, content) ==
    [raises |-> FALSE, msg |-> "", kind |-> "dict",
     has_response |-> has_response, response |-> response,
     has_content |-> has_content, content |-> content]
StrResponse(text) ==
    [raises |-> FALSE, msg |-> "", kind |-> "str",
     has_response |-> FALSE, response |-> text, has_content |-> FALSE, content |-> <<>>]
ObjResponse(has_content, content) ==
    [raises |-> FALSE, msg |-> "", kind |-> "obj",
     has_response |-> FALSE, response |-> <<>>, has_content |-> has_content, content |-> content]

\* variant: every failure of the first call is retried on mistral
FallbackAlways(model_choice, e) == TRUE

\* lines 119-145: which failures of the first call are retried on mistral
ShouldFallback(model_choice, e) ==
    HasMemorySignal(e) \/ model_choice = "gpt-4"

\* variant: the first call's exception is raised when the retry fails
FallbackFailureOriginal(e, fallback_e) == e

\* lines 129-131, 140-142: the exception raised when the fallback call fails too
FallbackFailure(e, fallback_e) == fallback_e

\* lines 114-145: the backend call with the fallback policy.  first and second
\* are what the first and the second ollama.chat call of this invocation do.
CallBackend(model_choice, first, second) ==
    IF ~first.raises
    THEN [ok |-> TRUE, response |-> first, exc |-> <<>>,
          chats |-> <<model_choice>>, effective |-> model_choice]
    ELSE LET e == BackendError(first.msg, 1)
         IN  IF ShouldFallback(model_choice, e)
             THEN IF ~second.raises
                  THEN [ok |-> TRUE, response |-> second, exc |-> <<>>,
                        chats |-> <<model_choice, "mistral">>, effective |-> "mistral"]
                  ELSE [ok |-> FALSE, response |-> second,
                        exc |-> <<FallbackFailure(e, BackendError(second.msg, 2))>>,
                        chats |-> <<model_choice, "mistral">>, effective |-> model_choice]
             ELSE [ok |-> FALSE, response |-> first, exc |-> <<e>>,
                   chats |-> <<model_choice>>, effective |-> model_choice]

\* variant: the message content of a mapping comes before its 'response' field
NormalizeContentFirst(response) ==
    IF response.kind = "dict"
    THEN IF response.has_content THEN [ok |-> TRUE, insights |-> response.content]
         ELSE IF response.has_response THEN [ok |-> TRUE, insights |-> response.response]
         ELSE [ok |-> FALSE, insights |-> <<>>]
    ELSE IF response.kind = "str"
    THEN [ok |-> TRUE, insights |-> clean_response(response.response)]
    ELSE IF response.has_content THEN [ok |-> TRUE, insights |-> response.content]
    ELSE [ok |-> FALSE, insights |-> <<>>]

\* lines 147-159: the response shapes in their order of precedence
Normalize(response) ==
    IF response.kind = "dict"
    THEN IF response.has_response THEN [ok |-> TRUE, insights |-> response.response]
         ELSE IF response.has_content THEN [ok |-> TRUE, insights |-> response.content]
         ELSE [ok |-> FALSE, insights |-> <<>>]
    ELSE IF response.kind = "str"
    THEN [ok |-> TRUE, insights |-> clean_response(response.response)]
    ELSE IF response.has_content THEN [ok |-> TRUE, insights |-> response.content]
    ELSE [ok |-> FALSE, insights |-> <<>>]

\* variant: the availability of the model is not asked
ValidateNameOnly(model_choice, available) ==
    IF model_choice \notin AVAILABLE_MODELS
    THEN <<ValueError("Invalid model")>>
    ELSE <<>>

\* variant: gpt-4 is let through when it is not available
ValidateLenient(model_choice, available) ==
    IF model_choice \notin AVAILABLE_MODELS THEN <<ValueError("Invalid model")>>
    ELSE IF ~available /\ model_choice # "gpt-4"
    THEN <<ValueError("model is not available in Ollama")>>
    ELSE <<>>

\* lines 64-71: the allow-list and the availability check
Validate(model_choice, available) ==
    IF model_choice \notin AVAILABLE_MODELS THEN <<ValueError("Invalid model")>>
    ELSE IF ~available THEN <<ValueError("model is not available in Ollama")>>
    ELSE <<>>

\* variant: only clear_cache removes the entry
RemoveOnlyOnClear(c, cache_file, force_regenerate, clear_cache) ==
    clear_cache /\ cache_file \in DOMAIN c

\* lines 96-98: the entry is removed first
ShouldRemove(c, cache_file, force_regenerate, clear_cache) ==
    (force_regenerate \/ clear_cache) /\ cache_file \in DOMAIN c

\* variant: the flag is tested the wrong way round
LookupWhenForced(c, cache_file, force_regenerate) ==
    force_regenerate /\ cache_file \in DOMAIN c

\* line 99: the cache is consulted
ShouldLookup(c, cache_file, force_regenerate) ==
    ~force_regenerate /\ cache_file \in DOMAIN c

\* variant: the entry is read under a key the file does not have
CachedInsightsWrongKey(c, cache_file) == <<>>

\* line 105: the cached text
CachedInsights(c, cache_file) == Strip(c[cache_file].insights)

\* variant: the text is written whatever it is
CacheAlways(insights) == TRUE

\* line 162: only non-empty text is cached
ShouldCache(insights) == insights # <<>>

\* the result of one invocation
Result(c, outcome, text, exc, chats, ops, generated) ==
    [cache |-> c, outcome |-> outcome, text |-> text, exc |-> exc,
     chats |-> chats, ops |-> ops, generated |-> generated]

\* lines 49-175.  args are the arguments of the call; env.available is what
\* is_model_available answers, env.first and env.second are what the first and
\* the second ollama.chat call do; ops are the cache operations performed.
generate_ai_insights(c, args, env) ==
    LET invalid == Validate(args.model_choice, env.available)
        prompt == BuildPrompt(args.eda_summary, args.model_summary,
                              args.chunk_threshold, args.enable_cot)
        cache_file == get_cache_filename(prompt, args.model_choice)
        remove == ShouldRemove(c, cache_file, args.force_regenerate, args.clear_cache)
        c1 == IF remove THEN RemoveFile(c, cache_file) ELSE c
        lookup == ShouldLookup(c1, cache_file, args.force_regenerate)
        ops1 == (IF remove THEN {"remove"} ELSE {}) \cup (IF lookup THEN {"read"} ELSE {})
        gen == CallBackend(args.model_choice, env.first, env.second)
        norm == Normalize(gen.response)
        insights == Strip(norm.insights)
    IN  IF invalid # <<>>
        THEN Result(c, "raised", <<>>, invalid, <<>>, {}, <<>>)
        ELSE IF lookup /\ CachedInsights(c1, cache_file) # <<>>
        THEN Result(c1, "returned", CachedInsights(c1, cache_file), <<>>, <<>>, ops1, <<>>)
        ELSE IF ~gen.ok
        THEN Result(c1, "raised", <<>>, gen.exc, gen.chats, ops1, <<>>)
        ELSE IF ~norm.ok
        THEN Result(c1, "raised", <<>>, <<ValueError("Unexpected response")>>,
                    gen.chats, ops1, <<>>)
        ELSE IF ShouldCache(insights)
        THEN Result(WriteFile(c1, cache_file, insights), "returned", insights, <<>>,
                    gen.chats, ops1 \cup {"write"}, <<insights>>)
        ELSE Result(c1, "returned", insights, <<>>, gen.chats, ops1, <<insights>>)

\* the cache file a call with these arguments uses
KeyOf(args) ==
    get_cache_filename(BuildPrompt(args.eda_summary, args.model_summary,
                                   args.chunk_threshold, args.enable_cot),
                       args.model_choice)

(***************************************************************************)
(* The training stage: model_training_agent.py.  R2 values, thresholds and *)
(* the data-quality score are in hundredths.                               *)
(***************************************************************************)

\* get_models("regression")
RegressionModels ==
    {"LinearRegression", "RandomForestRegressor", "GradientBoostingRegressor", "SVR"}

\* get_metrics("regression")
RegressionMetrics == {"RMSE", "R2", "MAE"}

\* variant: the artifact is named by its model only
ModelFilenameFixed(model_name, timestamp) == <<model_name, 0, ".pkl">>

\* f"{model_name}_{timestamp}.pkl"
ModelFilename(model_name, timestamp) == <<model_name, timestamp, ".pkl">>

\* train_test_split(X, y, test_size=0.2) needs a row on each side
SplitFails(df) == df.rows < 2

\* lines 138-157: what makes the whole call raise
TrainingError(df, target_col) ==
    IF df.rows = 0 THEN <<"Dataset is empty. Cannot train models.">>
    ELSE IF target_col \notin df.columns THEN <<"Target column not found.">>
    ELSE IF SplitFails(df) THEN <<"train_test_split: the train set is empty">>
    ELSE <<>>

\* lines 184-187: the result row of one trained model (the metric values other
\* than R2 are left out)
ResultRow(model_name, selected_metrics, r2) ==
    IF "R2" \in selected_metrics
    THEN [Model |-> model_name, R2 |-> r2]
    ELSE [Model |-> model_name]

RECURSIVE TrainLoopAbort(_, _, _, _, _, _)
\* variant: the first failure ends the loop
TrainLoopAbort(acc, models, selected_metrics, model_folder, now, fit) ==
    IF models = <<>> \/ ~fit[Head(models)].ok THEN acc
    ELSE LET model_name == Head(models)
             model_filename == ModelFilename(model_name, now)
             next == [results |-> Append(acc.results,
                                     ResultRow(model_name, selected_metrics,
                                               fit[model_name].r2)),
                      trained_models |->
                          [m \in DOMAIN acc.trained_models \cup {model_name} |->
                              IF m = model_name THEN model_filename
                              ELSE acc.trained_models[m]],
                      files |-> acc.files \cup {<<model_folder, model_filename>>}]
         IN  TrainLoopAbort(next, Tail(models), selected_metrics, model_folder, now, fit)

RECURSIVE TrainLoop(_, _, _, _, _, _)
\* lines 166-208: the models are trained in order; a model whose training
\* fails is skipped.  acc is [results, trained_models, files].
TrainLoop(acc, models, selected_metrics, model_folder, now, fit) ==
    IF models = <<>> THEN acc
    ELSE LET model_name == Head(models)
             model_filename == ModelFilename(model_name, now)
             next == IF fit[model_name].ok
                     THEN [results |-> Append(acc.results,
                                        ResultRow(model_name, selected_metrics,
                                                  fit[model_name].r2)),
                           trained_models |->
                               [m \in DOMAIN acc.trained_models \cup {model_name} |->
                                   IF m = model_name THEN model_filename
                                   ELSE acc.trained_models[m]],
                           files |-> acc.files \cup {<<model_folder, model_filename>>}]
                     ELSE acc
         IN  TrainLoop(next, Tail(models), selected_metrics, model_folder, now, fit)

\* the base directory of the model files; a folder is the tuple of its parts
ModelsDir == <<"models">>

\* os.path.join("models", session_id)
SessionFolder(session_id) == <<"models", session_id>>

\* lines 134-135: a session id, when given, decides the folder.  session_id is
\* optional: a sequence of at most one member.
ModelFolder(model_folder, session_id) ==
    IF session_id # <<>> THEN SessionFolder(session_id[1]) ELSE model_folder

\* os.makedirs(folder, exist_ok=True): the folder and its parents exist
\* afterwards.  A directory is the entry <<folder>> of the files on disk, a
\* file the entry <<folder, file name>>.
MakeDirs(fs, folder) ==
    fs \cup { <<SubSeq(folder, 1, k)>> : k \in 1..Len(folder) }

\* lines 111-222.  fs are the model files and directories on disk, now is
\* int(time.time()), fit[m] is what fitting, scoring and saving model m does.
train_and_evaluate_models(fs, now, df, target_col, selected_models, selected_metrics, model_folder, session_id, fit) ==
    LET folder == ModelFolder(model_folder, session_id)
        fs1 == MakeDirs(fs, folder)
        error == TrainingError(df, target_col)
        models_to_train == SelectSeq(selected_models, LAMBDA m : m \in RegressionModels)
        metrics == {m \in selected_metrics : m \in RegressionMetrics}
        done == TrainLoop([results |-> <<>>, trained_models |-> <<>>, files |-> fs1],
                          models_to_train, metrics, folder, now, fit)
    IN  IF error # <<>>
        THEN [raised |-> TRUE, exc |-> error, results |-> <<>>,
              trained_models |-> <<>>, files |-> fs1]
        ELSE [raised |-> FALSE, exc |-> <<>>, results |-> done.results,
              trained_models |-> done.trained_models, files |-> done.files]

(***************************************************************************)
(* The Orchestrator: orchestrator_agent.py.                                *)
(***************************************************************************)

\* line 69 and line 70, in hundredths
DefaultEdaQualityThreshold == 80
DefaultModelPerformanceThreshold == 75

\* line 88: the data-quality score is a fixed value, in hundredths
DataQuality == 85

ActionFeatureEngineering == "Perform advanced feature engineering."
ActionTune == "Tune hyperparameters or try alternative models."
ActionProceed == "Proceed to forecasting or deployment."
\* variant: no text in place of the insights
NoInsightsEmpty == <<>>

\* line 128
NoInsightsMessage == <<"No AI insights available due to an error.">>
LowR2Summary == <<"Model training results indicate low R2.">>

\* row.get("R2", 0)
RowR2(row) == IF "R2" \in DOMAIN row THEN row.R2 ELSE 0

RECURSIVE MaxR2(_)
MaxR2(results) ==
    IF Len(results) = 1 THEN RowR2(results[1])
    ELSE LET rest == MaxR2(Tail(results))
         IN  IF RowR2(results[1]) >= rest THEN RowR2(results[1]) ELSE rest

\* variant: without rows the best R2 is the perfect score
BestR2DefaultOne(results) == IF results = <<>> THEN 100 ELSE MaxR2(results)

\* line 113: max((row.get("R2", 0) for row in results), default=0.0)
BestR2(results) == IF results = <<>> THEN 0 ELSE MaxR2(results)

\* variant: the score is compared with the threshold of a new agent
QualityIsLowByDefault(a) == DataQuality < DefaultEdaQualityThreshold

\* line 89
QualityIsLow(a) == DataQuality < a.eda_quality_threshold

\* variant: the threshold itself counts as low
PerformanceIsLowOrEqual(a, best_r2) == best_r2 <= a.model_performance_threshold

\* line 114
PerformanceIsLow(a, best_r2) == best_r2 < a.model_performance_threshold

\* variant: the exception's message is left out
EdaFailureNoDetails(msg) == [error |-> "EDA failed"]

\* line 87: return {"error": "EDA failed", "details": str(e)}
EdaFailure(msg) == [error |-> "EDA failed", details |-> msg]

\* variant: the training failure is reported as the EDA failure is
TrainingFailureAsEda(msg) == [error |-> "EDA failed", details |-> msg]

\* line 111: return {"error": "Model training failed", "details": str(e)}
TrainingFailure(msg) == [error |-> "Model training failed", details |-> msg]

\* one stage invocation of a decide_next_steps call
Stage(name, raised, msg, chats, ops) ==
    [stage |-> name, raised |-> raised, msg |-> msg, chats |-> chats, ops |-> ops]

\* variant: the generator is asked without context when the retrieval raised
AugmentWithoutContext(c, report, env) ==
    LET args == [eda_summary |-> report, model_summary |-> LowR2Summary,
                 model_choice |-> "gpt-4", chunk_threshold |-> 1500,
                 force_regenerate |-> TRUE, enable_cot |-> TRUE, clear_cache |-> FALSE]
        r == generate_ai_insights(c, args, env.insights)
    IN  [ai_insights |-> IF r.outcome = "returned" THEN r.text ELSE NoInsightsMessage,
         cache |-> r.cache,
         stages |-> <<Stage("retrieve_context", env.retrieval.raises, env.retrieval.msg, <<>>, {}),
                      Stage("generate_ai_insights", r.outcome = "raised",
                            IF r.exc = <<>> THEN "" ELSE r.exc[1].msg, r.chats, r.ops)>>]

\* lines 117-131: the AUGMENT branch.  It gives the ai_insights value, the
\* stages invoked and the cache afterwards.  The generator's stage also tells
\* what is_model_available answered.
Augment(c, report, env) ==
    IF env.retrieval.raises
    THEN [ai_insights |-> NoInsightsMessage, cache |-> c,
          stages |-> <<Stage("retrieve_context", TRUE, env.retrieval.msg, <<>>, {})>>]
    ELSE LET args == [eda_summary |-> report \o <<"Additional Domain Context:">>
                                            \o env.retrieval.text,
                      model_summary |-> LowR2Summary,
                      model_choice |-> "gpt-4",
                      chunk_threshold |-> 1500,
                      force_regenerate |-> TRUE,
                      enable_cot |-> TRUE,
                      clear_cache |-> FALSE]
             r == generate_ai_insights(c, args, env.insights)
         IN  [ai_insights |-> IF r.outcome = "returned" THEN r.text ELSE NoInsightsMessage,
              cache |-> r.cache,
              stages |-> <<Stage("retrieve_context", FALSE, "", <<>>, {}),
                           Stage("generate_ai_insights", r.outcome = "raised",
                                 IF r.exc = <<>> THEN "" ELSE r.exc[1].msg,
                                 r.chats, r.ops)
                               @@ [available |-> env.insights.available]>>]

\* lines 72-135.  a is the agent, c the insight cache, fs the model files, now
\* the time; env says what the stages do: env.eda, env.fit, env.retrieval and
\* env.insights.
decide_next_steps(a, c, fs, now, data, target_col, env) ==
    LET train_output ==
            train_and_evaluate_models(fs, now, data, target_col,
                <<"LinearRegression", "RandomForestRegressor">>, {"RMSE", "R2"},
                ModelsDir, <<>>, env.fit)
        best_r2 == BestR2(train_output.results)
        aug == Augment(c, env.eda.report, env)
        eda == Stage("generate_eda", env.eda.raises, env.eda.msg, <<>>, {})
        train == Stage("train_and_evaluate_models", train_output.raised,
                       IF train_output.raised THEN train_output.exc[1] ELSE "", <<>>, {})
    IN  IF env.eda.raises
        THEN [decision |-> EdaFailure(env.eda.msg),
              trace |-> <<eda>>, cache |-> c, files |-> fs]
        ELSE IF QualityIsLow(a)
        THEN [decision |-> [eda_report |-> env.eda.report,
                            next_action |-> ActionFeatureEngineering,
                            reason |-> <<"Data quality score", DataQuality,
                                         "< threshold", a.eda_quality_threshold>>],
              trace |-> <<eda>>, cache |-> c, files |-> fs]
        ELSE IF train_output.raised
        THEN [decision |-> TrainingFailure(train_output.exc[1]),
              trace |-> <<eda, train>>, cache |-> c, files |-> train_output.files]
        ELSE IF PerformanceIsLow(a, best_r2)
        THEN [decision |-> [eda_report |-> env.eda.report,
                            model_results |-> train_output.results,
                            next_action |-> ActionTune,
                            reason |-> <<"Best R2", best_r2, "< threshold",
                                         a.model_performance_threshold>>,
                            ai_insights |-> aug.ai_insights],
              trace |-> <<eda, train>> \o aug.stages,
              cache |-> aug.cache, files |-> train_output.files]
        ELSE [decision |-> [eda_report |-> env.eda.report,
                            model_results |-> train_output.results,
                            next_action |-> ActionProceed,
                            reason |-> <<"Data quality & model performance are satisfactory",
                                         best_r2>>],
              trace |-> <<eda, train>>, cache |-> c, files |-> train_output.files]

(***************************************************************************)
(* evaluation_agent.py: evaluate_model.  A frame is known by the sequence  *)
(* of its column names; a saved model by whether joblib can load it and by *)
(* the _training_columns list the training stage stored on it.             *)
(***************************************************************************)

Range(s) == { s[i] : i \in 1..Len(s) }

\* df.drop(columns=names): the other columns, in the frame's order
DropColumns(columns, names) ==
    SelectSeq(columns, LAMBDA c : c \notin names)

\* variant: the columns are kept in the frame's order
SelectInFrameOrder(columns, names) ==
    SelectSeq(columns, LAMBDA c : c \in Range(names))

\* line 58, df[list(names)]: for each name in turn, the frame's columns of
\* that name
RECURSIVE SelectColumns(_, _)
SelectColumns(columns, names) ==
    IF names = <<>> THEN <<>>
    ELSE SelectSeq(columns, LAMBDA c : c = Head(names))
             \o SelectColumns(columns, Tail(names))

\* lines 35-38: the target is split off when it is given and present
HasTarget(columns, target_col) ==
    target_col # <<>> /\ target_col[1] \in Range(columns)

\* line 47
ExtraCols(model, columns) == Range(columns) \ Range(model._training_columns)

\* line 48
MissingCols(model, columns) == Range(model._training_columns) \ Range(columns)

\* lines 53-56
MissingColumnsError(missing_cols) ==
    [type |-> "ValueError",
     msg |-> <<"Missing expected columns from training:", missing_cols,
               "Please check your dataset.">>]

\* lines 34-59: the col_info mapping.  The dropped columns are listed in the
\* iteration order of a set, so the listing is kept as a set.
ColInfo(model, columns, target_col, features) ==
    LET missing_target ==
            IF target_col # <<>> /\ ~HasTarget(columns, target_col)
            THEN [missing_target |-> target_col[1]] ELSE <<>>
        dropped ==
            IF model.has_training_columns /\ ExtraCols(model, features) # {}
            THEN [extra_columns_dropped |-> ExtraCols(model, features)] ELSE <<>>
        used ==
            IF model.has_training_columns
            THEN [used_columns |-> model._training_columns] ELSE <<>>
    IN  missing_target @@ dropped @@ used

EvalResult(outcome, exc, given, result) ==
    [outcome |-> outcome, exc |-> exc, given |-> given, result |-> result]

\* lines 17-90.  given holds the columns of the frame model.predict receives,
\* when predict is called.
evaluate_model(new_df, model, target_col, predict_raises) ==
    LET features == IF HasTarget(new_df, target_col)
                    THEN DropColumns(new_df, {target_col[1]}) ELSE new_df
        kept == IF model.has_training_columns
                THEN DropColumns(features, ExtraCols(model, features))
                ELSE features
        df == IF model.has_training_columns
              THEN SelectColumns(kept, model._training_columns) ELSE kept
        col_info == ColInfo(model, new_df, target_col, features)
        results == [predictions |-> "predictions", column_info |-> col_info]
        scored == [metrics |-> "metrics", actual |-> target_col] @@ results
    IN  IF ~model.loads
        THEN EvalResult("raised", <<[type |-> "LoadError", msg |-> <<>>]>>, <<>>, <<>>)
        ELSE IF model.has_training_columns /\ MissingCols(model, features) # {}
        THEN EvalResult("raised", <<MissingColumnsError(MissingCols(model, features))>>,
                        <<>>, <<>>)
        ELSE IF predict_raises
        THEN EvalResult("raised", <<[type |-> "PredictError", msg |-> <<>>]>>,
                        <<df>>, <<>>)
        ELSE EvalResult("returned", <<>>, <<df>>,
                        <<IF HasTarget(new_df, target_col) THEN scored ELSE results>>)

(***************************************************************************)
(* Dataset snapshots: preprocessing_agent.py, file_utils.py and the routes *)
(* that resolve a dataset id.  The store maps a path <<folder, stem>> (the  *)
(* ".csv" suffix is left out) to the frame saved there; a stem is a tuple. *)
(***************************************************************************)

OriginalFolder == "original_data"
ProcessedFolder == "processed_data"
FeatureEngineeredFolder == "feature_engineered_data"

\* os.path.join(folder, f"{dataset_id}.csv")
DatasetPath(folder, dataset_id) == <<folder, dataset_id>>

\* df.to_csv(path): the file is created, or replaced when it exists
WriteCsv(st, path, df) ==
    [p \in DOMAIN st \cup {path} |-> IF p = path THEN df ELSE st[p]]

\* file_utils.py line 75-76: f"processed_{timestamp}.csv", the timestamp in
\* whole seconds
TimestampStem(now) == <<"processed_", now>>

\* file_utils.py lines 69-83
save_processed_data(st, now, df, folder) ==
    LET file_path == DatasetPath(folder, TimestampStem(now))
    IN  [store |-> WriteCsv(st, file_path, df), file_path |-> file_path]

\* what a transformation makes of a frame: the rows and columns are kept here,
\* the data is marked as transformed
Transformed(df, step) == [df EXCEPT !.data = Append(@, step)]

\* preprocessing_agent.py lines 127-228.  raw_dataset_id and dataset_id are
\* the values of the two uuid.uuid4() calls.
run_preprocessing_pipeline(st, df, save_processed, raw_dataset_id, dataset_id) ==
    LET raw_path == DatasetPath(OriginalFolder, raw_dataset_id)
        st1 == WriteCsv(st, raw_path, df)
        processed == Transformed(df, "preprocessed")
        final_path == DatasetPath(ProcessedFolder, dataset_id)
    IN  IF df.rows = 0
        THEN [raised |-> TRUE, store |-> st, written |-> <<>>]
        ELSE IF save_processed
        THEN [raised |-> FALSE, store |-> WriteCsv(st1, final_path, processed),
              written |-> <<[path |-> raw_path, df |-> df],
                            [path |-> final_path, df |-> processed]>>]
        ELSE [raised |-> FALSE, store |-> st1,
              written |-> <<[path |-> raw_path, df |-> df]>>]

Found(path) == [found |-> TRUE, path |-> <<path>>, tried |-> <<>>]
NotFound(tried) == [found |-> FALSE, path |-> <<>>, tried |-> tried]

\* feature_engineering_routes.py lines 41-48
ResolveAdvanced(st, dataset_id, folder) ==
    LET csv_path == DatasetPath(folder, dataset_id)
        alt_folder == IF folder = ProcessedFolder THEN OriginalFolder ELSE ProcessedFolder
        alt_path == DatasetPath(alt_folder, dataset_id)
    IN  IF csv_path \in DOMAIN st THEN Found(csv_path)
        ELSE IF alt_path \in DOMAIN st THEN Found(alt_path)
        ELSE NotFound(<<folder, alt_folder>>)

\* feature_engineering_routes.py lines 109-114
ResolveColumns(st, dataset_id, folder) ==
    LET csv_path == DatasetPath(folder, dataset_id)
        alt_path == DatasetPath(OriginalFolder, dataset_id)
    IN  IF csv_path \in DOMAIN st THEN Found(csv_path)
        ELSE IF alt_path \in DOMAIN st THEN Found(alt_path)
        ELSE NotFound(<<folder, OriginalFolder>>)

\* model_training_routes.py lines 40-67: the folder of a dataset_source
SourceFolder(dataset_source) ==
    IF dataset_source = "original" THEN OriginalFolder
    ELSE IF dataset_source = "preprocessed" THEN ProcessedFolder
    ELSE FeatureEngineeredFolder

\* model_training_routes.py lines 44-65: one folder is looked in
ResolveTraining(st, dataset_id, dataset_source) ==
    LET data_path == DatasetPath(SourceFolder(dataset_source), dataset_id)
    IN  IF data_path \in DOMAIN st THEN Found(data_path)
        ELSE NotFound(<<SourceFolder(dataset_source)>>)

\* what a route knows of its resolution: the stage folder asked for, the
\* folders that held the id when the call started, and the path used
Resolution(route, st, dataset_id, folder, r) ==
    [route |-> route, dataset_id |-> dataset_id, folder |-> folder,
     existing |-> { f \in {OriginalFolder, ProcessedFolder, FeatureEngineeredFolder} :
                      DatasetPath(f, dataset_id) \in DOMAIN st },
     found |-> r.found, path |-> r.path]

NoResolution == [route |-> "none"]

RouteResult(status, st, fs, res, written) ==
    [status |-> status, store |-> st, files |-> fs,
     resolution |-> res, written |-> written]

\* feature_engineering_routes.py lines 39-101.  file and dataset_id are
\* optional: a sequence of at most one member.
advanced_feature_engineering(st, fs, now, file, dataset_id, folder, save_result) ==
    LET r == ResolveAdvanced(st, dataset_id[1], folder)
        res == IF dataset_id # <<>>
               THEN Resolution("advanced", st, dataset_id[1], folder, r)
               ELSE NoResolution
        df == IF dataset_id # <<>> THEN st[r.path[1]] ELSE file[1]
        df_fe == Transformed(df, "engineered")
        saved == save_processed_data(st, now, df_fe, FeatureEngineeredFolder)
    IN  IF dataset_id # <<>> /\ ~r.found THEN RouteResult(500, st, fs, res, <<>>)
        ELSE IF dataset_id = <<>> /\ file = <<>> THEN RouteResult(500, st, fs, res, <<>>)
        ELSE IF df.rows = 0 THEN RouteResult(500, st, fs, res, <<>>)
        ELSE IF save_result
        THEN RouteResult(200, saved.store, fs, res,
                         <<[path |-> saved.file_path, df |-> df_fe]>>)
        ELSE RouteResult(200, st, fs, res, <<>>)

\* feature_engineering_routes.py lines 103-133
get_dataset_columns(st, fs, dataset_id, folder) ==
    LET r == ResolveColumns(st, dataset_id, folder)
        res == Resolution("columns", st, dataset_id, folder, r)
    IN  IF ~r.found THEN RouteResult(500, st, fs, res, <<>>)
        ELSE IF st[r.path[1]].rows = 0 THEN RouteResult(500, st, fs, res, <<>>)
        ELSE RouteResult(200, st, fs, res, <<>>)

\* model_training_routes.py lines 38-101, for a known dataset_source; id is
\* dataset_id, or feature_engineered_id for the feature_engineered source.
\* An HTTPException raised inside the try is caught by line 99 and becomes
\* status 500.
train_models(st, fs, now, file, id, dataset_source, fit) ==
    LET upload == dataset_source = "original" /\ file # <<>>
        r == ResolveTraining(st, id[1], dataset_source)
        res == IF ~upload /\ id # <<>>
               THEN Resolution("train", st, id[1], SourceFolder(dataset_source), r)
               ELSE NoResolution
        df == IF upload THEN file[1] ELSE st[r.path[1]]
        output == train_and_evaluate_models(fs, now, df, "target",
                      <<"LinearRegression">>, {"R2"}, ModelsDir, <<>>, fit)
    IN  IF ~upload /\ id = <<>> THEN RouteResult(500, st, fs, res, <<>>)
        ELSE IF ~upload /\ ~r.found THEN RouteResult(500, st, fs, res, <<>>)
        ELSE IF df.rows = 0 THEN RouteResult(500, st, fs, res, <<>>)
        ELSE IF output.raised THEN RouteResult(500, st, fs, res, <<>>)
        ELSE RouteResult(200, st, output.files, res, <<>>)

(***************************************************************************)
(* The model repository: reset_routes.py and the model resolution of       *)
(* evaluation_routes.py.                                                   *)
(***************************************************************************)

IsFile(entry) == Len(entry) = 2

\* the entries below the base directory "models"
UnderModels(fs) == { e \in fs : e[1][1] = "models" }

\* the directories of a folder: the folder and its parents
DirsOf(folder) == { <<SubSeq(folder, 1, k)>> : k \in 1..Len(folder) }

\* variant: only the folders of the sessions are removed
RemoveSessionFolders(fs, stuck) ==
    { e \in fs : ~(e[1][1] = "models" /\ Len(e[1]) > 1) }

\* reset_routes.py lines 13-22 and 34: shutil.rmtree with on_rm_error.  A
\* file in stuck cannot be removed even after chmod; the failure is logged and
\* the file and the directories that hold it stay.
RemoveTree(fs, stuck) ==
    LET left == { e \in UnderModels(fs) : IsFile(e) /\ e \in stuck }
    IN  (fs \ UnderModels(fs)) \cup left \cup UNION { DirsOf(e[1]) : e \in left }

\* reset_routes.py lines 30-40.  new_session_id is the value of uuid.uuid4().
restart_analysis(fs, new_session_id, stuck) ==
    LET fs1 == IF <<ModelsDir>> \in fs THEN RemoveTree(fs, stuck) ELSE fs
        session_folder == SessionFolder(new_session_id)
    IN  [status |-> "success", session_id |-> new_session_id,
         files |-> MakeDirs(fs1, session_folder)]

\* evaluation_routes.py lines 51-54: the path of a model file of a session, or
\* of no session, and whether it exists
ResolveModel(fs, model_file, session_id) ==
    LET model_dir == ModelFolder(ModelsDir, session_id)
        model_path == <<model_dir, model_file>>
    IN  [found |-> model_path \in fs, model_path |-> model_path]

\* evaluation_routes.py lines 14-23
list_models(fs, session_id) ==
    LET model_dir == ModelFolder(ModelsDir, session_id)
    IN  IF <<model_dir>> \notin fs THEN {}
        ELSE { e[2] : e \in { x \in fs : IsFile(x) /\ x[1] = model_dir } }

\* the column names str.strip() leaves nothing of
BlankNames == {"", " "}

\* evaluation_routes.py lines 25-60.  file is the uploaded frame, if any: its
\* rows and the sequence of its columns.  A stored frame has its columns in
\* the order the caller names in order.  model is what joblib finds in the
\* file at model_path.
evaluate(st, fs, req, order, model, predict_raises) ==
    LET data_path == DatasetPath(ProcessedFolder, req.dataset_id[1])
        no_data == IF req.dataset_id # <<>> THEN data_path \notin DOMAIN st
                   ELSE req.file = <<>>
        df == IF req.dataset_id # <<>>
              THEN [rows |-> st[data_path].rows, columns |-> order]
              ELSE req.file[1]
        m == ResolveModel(fs, req.model_file, req.session_id)
        target == IF req.has_target /\ req.target_col \notin BlankNames
                  THEN <<req.target_col>> ELSE <<>>
        r == evaluate_model(df.columns, model, target, predict_raises)
        failed(path) == [status |-> 500, model_path |-> path, results |-> <<>>]
    IN  IF no_data THEN failed(<<>>)
        ELSE IF df.rows = 0 THEN failed(<<>>)
        ELSE IF ~m.found THEN failed(<<>>)
        ELSE IF r.outcome = "raised" THEN failed(<<m.model_path>>)
        ELSE [status |-> 200, model_path |-> <<m.model_path>>, results |-> <<r.result>>]

(***************************************************************************)
(* The inputs of the specifications.                                       *)
(***************************************************************************)

\* requested models: the heavy one, the fallback one, and one off the allow-list
ModelChoices == {"gpt-4", "mistral", "bogus"}

TextA == <<"a">>
TextB == <<"b">>

\* what the backend may do on one call
BackendOutcomes ==
    { Raises(MemorySignal), Raises("connection refused"),
      DictResponse(TRUE, TextA, FALSE, <<>>),
      DictResponse(TRUE, <<" ", "[", "T", "]", "\n">>, FALSE, <<>>),
      DictResponse(TRUE, <<" ">>, FALSE, <<>>),
      DictResponse(TRUE, TextA, TRUE, TextB),
      DictResponse(FALSE, <<>>, TRUE, TextB),
      DictResponse(FALSE, <<>>, FALSE, <<>>),
      StrResponse(<<"[", "T", "]", "a", EOS>>),
      StrResponse(<<"[", "[", "T", "]", "T", "]">>),
      ObjResponse(TRUE, TextB),
      ObjResponse(FALSE, <<>>) }

CallArgs ==
    [eda_summary : {<<"e">>}, model_summary : {<<>>}, model_choice : ModelChoices,
     chunk_threshold : {1500}, force_regenerate : BOOLEAN, enable_cot : {FALSE},
     clear_cache : BOOLEAN]

\* the cache files the calls above can name
CacheFiles == { KeyOf(a) : a \in {x \in CallArgs : x.model_choice \in AVAILABLE_MODELS} }

\* entries put into ai_cache from outside, as the tests do
PresetTexts == {<<>>, TextA}

NoCall == [op |-> "none"]

\* what the backend calls an invocation made returned or raised, in order
Consumed(env, r) ==
    IF Len(r.chats) = 0 THEN <<>>
    ELSE IF Len(r.chats) = 1 THEN <<env.first>>
    ELSE <<env.first, env.second>>

CallRecord(c, args, env, r) ==
    [op |-> "generate_ai_insights", args |-> args, available |-> env.available,
     before |-> FileAt(c, KeyOf(args)), outcome |-> r.outcome, text |-> r.text,
     exc |-> r.exc, chats |-> r.chats, backend |-> Consumed(env, r),
     ops |-> r.ops, generated |-> r.generated]

(***************************************************************************)
(* Specification Spec: calls of the Insight Generator, one after another.  *)
(***************************************************************************)

\* no sequence of repeated calls is followed
NoRun == [calls |-> 0]

\* OrchestratorAgent(): lines 68-70
NewAgent ==
    [eda_quality_threshold |-> DefaultEdaQualityThreshold,
     model_performance_threshold |-> DefaultModelPerformanceThreshold]

NoDecision == [none |-> TRUE]

InitOrch ==
    /\ agent = NewAgent
    /\ files = {}
    /\ clock = 0
    /\ decision = NoDecision
    /\ trace = <<>>

NoEvaluation == [op |-> "none"]

InitEval == evaluation = NoEvaluation

InitData ==
    /\ store = <<>>
    /\ resolution = NoResolution
    /\ saves = <<>>
    /\ uuids = 0

NoReset == [n |-> 0, session_id |-> <<>>, issued |-> {}, before |-> {}, stuck |-> {}]

NoTraining == [op |-> "none"]

InitRepository ==
    /\ reset = NoReset
    /\ training = NoTraining

\* the two threads that serve requests at the same time
Threads == {1, 2}

\* a thread that serves no generate_ai_insights call
IdleCall == [pc |-> "idle"]

\* a thread that serves no train_and_evaluate_models call
IdleRun == [pc |-> "idle"]

InitConcurrent ==
    /\ calls = [t \in Threads |-> IdleCall]
    /\ writes = <<>>
    /\ runs = [t \in Threads |-> IdleRun]
    /\ contents = <<>>
    /\ dumps = <<>>

Init ==
    /\ cache = <<>>
    /\ last = NoCall
    /\ run = NoRun
    /\ InitOrch
    /\ InitEval
    /\ InitData
    /\ InitRepository
    /\ InitConcurrent

\* one call of generate_ai_insights, from its entry to its return or raise
Generate ==
    \E args \in CallArgs, available \in BOOLEAN, first \in BackendOutcomes :
      \E second \in (IF first.raises THEN BackendOutcomes ELSE {first}) :
        LET env == [available |-> available, first |-> first, second |-> second]
            r == generate_ai_insights(cache, args, env)
        IN  /\ cache' = r.cache
            /\ last' = CallRecord(cache, args, env, r)
            /\ UNCHANGED <<run, orch, evaluation, datasets, repository, concurrent>>

\* a cache file written from outside the generator
PresetCache ==
    \E f \in CacheFiles, t \in PresetTexts :
        /\ cache' = WriteFile(cache, f, t)
        /\ last' = NoCall
        /\ UNCHANGED <<run, orch, evaluation, datasets, repository, concurrent>>

Next == Generate \/ PresetCache

Spec == Init /\ [][Next]_vars

(***************************************************************************)
(* Claims about single calls of the Insight Generator, under Spec.         *)
(***************************************************************************)

IsCall == last.op = "generate_ai_insights"

\* the call just made passed the allow-list and the availability check
Admitted == IsCall /\ last.args.model_choice \in AVAILABLE_MODELS /\ last.available

NotForced == ~last.args.force_regenerate /\ ~last.args.clear_cache

LastFile == FileAt(cache, KeyOf(last.args))

C3_Original ==
    (IsCall /\ last.args.model_choice = "gpt-4" /\ Len(last.backend) >= 1
        /\ last.backend[1].raises) =>
        /\ last.chats = <<"gpt-4", "mistral">>
        /\ last.backend[2].raises =>
             /\ last.outcome = "raised"
             /\ last.exc = <<BackendError(last.backend[1].msg, 1)>>

\* C3 amended: when gpt-4 is requested and the first backend call raises for
\* any reason, exactly one retry is made against mistral; if that retry raises
\* too, the exception that propagates is the one of the retry.
C3_Gpt4Fallback ==
    (IsCall /\ last.args.model_choice = "gpt-4" /\ Len(last.backend) >= 1
        /\ last.backend[1].raises) =>
        /\ last.chats = <<"gpt-4", "mistral">>
        /\ Len(last.backend) = 2
        /\ last.backend[2].raises =>
             /\ last.outcome = "raised"
             /\ last.exc = <<BackendError(last.backend[2].msg, 2)>>
        /\ ~last.backend[2].raises =>
             \A i \in 1..Len(last.exc) : last.exc[i].type # "BackendError"

\* gpt-4 failed without the memory signal, and the retry on mistral failed
\* with another message
C3_Witness ==
    /\ IsCall /\ last.args.model_choice = "gpt-4"
    /\ Len(last.backend) = 2
    /\ last.backend[1].raises /\ ~HasMemorySignal(last.backend[1])
    /\ last.backend[2].raises /\ last.backend[2].msg # last.backend[1].msg
    /\ last.outcome = "raised"

\* the environment that replays the backend calls of the call just made
ReplayEnv ==
    [available |-> last.available,
     first |-> IF Len(last.backend) >= 1 THEN last.backend[1] ELSE Raises(""),
     second |-> IF Len(last.backend) >= 2 THEN last.backend[2] ELSE Raises("")]

\* the same call made with no cache file at all
AsIfNoEntry == generate_ai_insights(<<>>, last.args, ReplayEnv)

\* C8: without force_regenerate and clear_cache, a cache entry with non-empty
\* text is returned with no backend call, and an entry with empty text makes
\* the call generate exactly as if no entry existed.
C8_CacheHitOrMiss ==
    (Admitted /\ NotForced /\ last.before # <<>>) =>
        /\ "read" \in last.ops /\ "remove" \notin last.ops
        /\ last.before[1].insights # <<>> =>
             /\ last.outcome = "returned"
             /\ last.text = last.before[1].insights
             /\ last.chats = <<>>
             /\ "write" \notin last.ops
             /\ LastFile = last.before
        /\ last.before[1].insights = <<>> =>
             /\ Len(last.chats) >= 1
             /\ last.outcome = AsIfNoEntry.outcome
             /\ last.text = AsIfNoEntry.text
             /\ last.exc = AsIfNoEntry.exc
             /\ last.chats = AsIfNoEntry.chats
             /\ last.generated = AsIfNoEntry.generated
             /\ ("write" \in last.ops) <=> ("write" \in AsIfNoEntry.ops)
             /\ "write" \in last.ops => LastFile = <<[insights |-> last.text]>>

\* an entry with empty text was found, and the call generated new text
C8_Witness ==
    /\ Admitted /\ NotForced
    /\ last.before = <<[insights |-> <<>>]>>
    /\ last.outcome = "returned" /\ last.text = TextA
    /\ Len(last.chats) = 1

\* an entry with non-empty text was found and returned
C8_WitnessHit ==
    /\ Admitted /\ NotForced
    /\ last.before = <<[insights |-> TextA]>>
    /\ last.outcome = "returned" /\ last.text = TextA /\ last.chats = <<>>

C10_RejectedBeforeCache ==
    [][ (last'.op = "generate_ai_insights"
         /\ (last'.args.model_choice \notin AVAILABLE_MODELS \/ ~last'.available)) =>
            /\ last'.outcome = "raised"
            /\ Len(last'.exc) = 1 /\ last'.exc[1].type = "ValueError"
            /\ last'.chats = <<>> /\ last'.backend = <<>>
            /\ last'.ops = {}
            /\ cache' = cache ]_vars

\* an unavailable model was requested while its key held non-empty text
C10_Witness ==
    /\ IsCall /\ last.args.model_choice = "gpt-4" /\ ~last.available
    /\ last.before = <<[insights |-> TextB]>>
    /\ last.outcome = "raised"
    /\ LastFile = last.before

(***************************************************************************)
(* Specification SpecRepeat: a sequence of calls for one fixed model and   *)
(* prompt, the model available, force_regenerate and clear_cache false,    *)
(* started from any content of the cache.                                  *)
(***************************************************************************)

\* the calls of one sequence
MaxCalls == 3

\* what ai_cache may hold when the sequence starts
CacheContents ==
    UNION { [D -> [insights : {<<>>, TextA, TextB}]] : D \in SUBSET CacheFiles }

RepeatArgs ==
    { a \in CallArgs : /\ a.model_choice \in AVAILABLE_MODELS
                       /\ ~a.force_regenerate /\ ~a.clear_cache }

NonEmptyEntry(file) == file # <<>> /\ file[1].insights # <<>>

InitRepeat ==
    /\ cache \in CacheContents
    /\ last = NoCall
    /\ \E a \in RepeatArgs :
         run = [calls |-> 0, args |-> a, backend |-> 0, texts |-> {}, raised |-> 0,
                entry |-> <<>>, warmCalls |-> 0, warmBackend |-> 0,
                warmTexts |-> {}, warmRaised |-> 0]
    /\ InitOrch
    /\ InitEval
    /\ InitData
    /\ InitRepository
    /\ InitConcurrent

\* the next call of the sequence; a call is warm when it starts with a
\* non-empty entry for its key
RepeatCall ==
    /\ run.calls < MaxCalls
    /\ \E first \in BackendOutcomes :
         \E second \in (IF first.raises THEN BackendOutcomes ELSE {first}) :
           LET env == [available |-> TRUE, first |-> first, second |-> second]
               r == generate_ai_insights(cache, run.args, env)
               before == FileAt(cache, KeyOf(run.args))
               after == FileAt(r.cache, KeyOf(run.args))
               warm == NonEmptyEntry(before)
               returned == IF r.outcome = "returned" THEN {r.text} ELSE {}
               failed == IF r.outcome = "raised" THEN 1 ELSE 0
           IN  /\ cache' = r.cache
               /\ run' = [calls |-> run.calls + 1,
                          args |-> run.args,
                          backend |-> run.backend + Len(r.chats),
                          texts |-> run.texts \cup returned,
                          raised |-> run.raised + failed,
                          entry |-> IF run.entry # <<>> THEN run.entry
                                    ELSE IF warm THEN before
                                    ELSE IF NonEmptyEntry(after) THEN after
                                    ELSE <<>>,
                          warmCalls |-> run.warmCalls + (IF warm THEN 1 ELSE 0),
                          warmBackend |-> run.warmBackend + (IF warm THEN Len(r.chats) ELSE 0),
                          warmTexts |-> run.warmTexts \cup (IF warm THEN returned ELSE {}),
                          warmRaised |-> run.warmRaised + (IF warm THEN failed ELSE 0)]
               /\ UNCHANGED <<last, orch, evaluation, datasets, repository, concurrent>>

NextRepeat == RepeatCall

SpecRepeat == InitRepeat /\ [][NextRepeat]_vars

\* C1 as stated: the calls of the sequence all return the same text and make
\* at most one backend call in total (stated for the sequences in which every
\* call returned).
C1_Original ==
    run.raised = 0 =>
        /\ run.backend <= 1
        /\ Cardinality(run.texts) <= 1

\* C1 amended: once the cache holds an entry with non-empty text for the key,
\* present beforehand or written by an earlier call of the sequence, every
\* later call returns that text, makes no backend call and leaves the entry as
\* it is; each call made before that makes one backend call, or two when it
\* falls back.
C1_StableOnceCached ==
    /\ run.entry = <<>> => run.warmCalls = 0
    /\ run.entry # <<>> =>
         /\ NonEmptyEntry(run.entry)
         /\ FileAt(cache, KeyOf(run.args)) = run.entry
         /\ run.warmBackend = 0
         /\ run.warmRaised = 0
         /\ run.warmTexts \subseteq {run.entry[1].insights}
    /\ run.backend >= run.calls - run.warmCalls
    /\ run.backend <= 2 * (run.calls - run.warmCalls)

\* the first call generated and cached text, and a later call returned it
C1_Witness ==
    /\ run.calls >= 2 /\ run.backend >= 1
    /\ run.warmCalls >= 1
    /\ run.entry # <<>> /\ run.warmTexts = {run.entry[1].insights}
    /\ run.texts = run.warmTexts

(***************************************************************************)
(* Specification SpecOrch: calls of decide_next_steps on one agent whose   *)
(* thresholds the caller may set, as the tests do.                         *)
(***************************************************************************)

Frames ==
    { [rows |-> 5, columns |-> {"target", "feature1", "feature2"}],
      [rows |-> 1, columns |-> {"target", "feature1", "feature2"}],
      [rows |-> 0, columns |-> {"target", "feature1", "feature2"}],
      [rows |-> 5, columns |-> {"feature1", "feature2"}] }

EdaOutcomes ==
    { [raises |-> FALSE, report |-> <<"EDA report">>, msg |-> ""],
      [raises |-> TRUE, report |-> <<>>, msg |-> "EDA error"],
      [raises |-> TRUE, report |-> <<>>, msg |-> "No columns to parse"] }

\* fitting, scoring and saving one model fails, or gives an R2 in hundredths
FitOutcomes ==
    { [ok |-> FALSE, r2 |-> 0], [ok |-> TRUE, r2 |-> 70],
      [ok |-> TRUE, r2 |-> 75], [ok |-> TRUE, r2 |-> 90] }

Fits == [{"LinearRegression", "RandomForestRegressor"} -> FitOutcomes]

\* retrieve_context raises, or returns the text it returns without an index
RetrievalOutcomes ==
    { [raises |-> TRUE, text |-> <<>>, msg |-> "encode failed"],
      [raises |-> FALSE, text |-> <<"No retrieval index loaded.">>, msg |-> ""] }

\* what the backend does in the calls made through the Orchestrator
OrchBackendOutcomes ==
    { Raises("connection refused"),
      DictResponse(TRUE, TextA, FALSE, <<>>),
      DictResponse(FALSE, <<>>, TRUE, TextB),
      DictResponse(TRUE, <<" ">>, FALSE, <<>>),
      ObjResponse(FALSE, <<>>) }

EdaThresholds == {80, 90}
PerformanceThresholds == {75, 90}

\* the stages after EDA are reached
ReachesTraining(a, eda) == ~eda.raises /\ ~QualityIsLow(a)

\* the AUGMENT branch is reached
ReachesAugment(a, fs, now, data, target_col, eda, fit) ==
    /\ ReachesTraining(a, eda)
    /\ LET t == train_and_evaluate_models(fs, now, data, target_col,
                    <<"LinearRegression", "RandomForestRegressor">>, {"RMSE", "R2"},
                    ModelsDir, <<>>, fit)
       IN  ~t.raised /\ PerformanceIsLow(a, BestR2(t.results))

\* what the stages of one call may do.  What a stage that is not reached
\* would do is not chosen.
InsightEnvs(aug) ==
    IF aug
    THEN { e \in [available : BOOLEAN, first : OrchBackendOutcomes,
                  second : OrchBackendOutcomes] :
             ~e.first.raises => e.second = e.first }
    ELSE { [available |-> FALSE, first |-> Raises(""), second |-> Raises("")] }

NoFit == [m \in {"LinearRegression", "RandomForestRegressor"} |-> [ok |-> FALSE, r2 |-> 0]]

NoRetrieval == [raises |-> TRUE, text |-> <<>>, msg |-> ""]

StageEnvs(a, fs, now, data, target_col) ==
    UNION { UNION {
        LET aug == ReachesAugment(a, fs, now, data, target_col, eda, fit)
        IN  { [eda |-> eda, fit |-> fit, retrieval |-> rt, insights |-> ie] :
                rt \in (IF aug THEN RetrievalOutcomes ELSE {NoRetrieval}),
                ie \in InsightEnvs(aug) }
        : fit \in (IF ReachesTraining(a, eda) THEN Fits ELSE {NoFit}) }
        : eda \in EdaOutcomes }

\* agent.eda_quality_threshold = e; agent.model_performance_threshold = m
SetThresholds ==
    \E e \in EdaThresholds, m \in PerformanceThresholds :
        /\ agent' = [eda_quality_threshold |-> e, model_performance_threshold |-> m]
        /\ decision' = NoDecision
        /\ trace' = <<>>
        /\ UNCHANGED <<cache, last, run, files, clock, evaluation, datasets, repository, concurrent>>

\* one call of decide_next_steps, from its entry to its return
DecideNextSteps ==
    \E data \in Frames :
      \E env \in StageEnvs(agent, files, clock, data, "target") :
        LET r == decide_next_steps(agent, cache, files, clock, data, "target", env)
        IN  /\ decision' = r.decision
            /\ trace' = r.trace
            /\ cache' = r.cache
            /\ files' = r.files
            /\ UNCHANGED <<last, run, agent, clock, evaluation, datasets, repository, concurrent>>

NextOrch == SetThresholds \/ DecideNextSteps

SpecOrch == Init /\ [][NextOrch]_vars

(***************************************************************************)
(* Claims about decide_next_steps, stated on the decision the last call    *)
(* returned and on the stages it invoked.                                  *)
(***************************************************************************)

\* a call of decide_next_steps has returned
Decided == trace # <<>>

StagesInvoked == { trace[i].stage : i \in 1..Len(trace) }

StagesRaised == { trace[i].stage : i \in { j \in 1..Len(trace) : trace[j].raised } }

TrainingSucceeded ==
    /\ Len(trace) >= 2
    /\ trace[2].stage = "train_and_evaluate_models"
    /\ ~trace[2].raised

\* C4: with the data-quality score at or above eda_quality_threshold and
\* training succeeding, a best R2 below model_performance_threshold gives the
\* Tune action and an ai_insights key holding a text; a best R2 at or above it
\* gives the Proceed action, no ai_insights key, and neither context retrieval
\* nor the insight generator is invoked.
C4_PerformanceBranch ==
    (Decided /\ DataQuality >= agent.eda_quality_threshold /\ TrainingSucceeded) =>
        LET best_r2 == BestR2(decision.model_results)
        IN  IF best_r2 < agent.model_performance_threshold
            THEN /\ decision.next_action = ActionTune
                 /\ "ai_insights" \in DOMAIN decision
                 /\ decision.ai_insights \in Seq(STRING)
            ELSE /\ decision.next_action = ActionProceed
                 /\ "ai_insights" \notin DOMAIN decision
                 /\ StagesInvoked \cap {"retrieve_context", "generate_ai_insights"} = {}

\* the low branch: the best R2 is below the threshold and the generator's text
\* is in the decision
C4_Witness ==
    /\ Decided /\ TrainingSucceeded
    /\ BestR2(decision.model_results) = 70
    /\ agent.model_performance_threshold = 75
    /\ decision.next_action = ActionTune
    /\ decision.ai_insights = TextA

\* the high branch at its boundary: the best R2 equals the threshold
C4_WitnessBoundary ==
    /\ Decided /\ TrainingSucceeded
    /\ BestR2(decision.model_results) = agent.model_performance_threshold
    /\ decision.next_action = ActionProceed

\* C5: when the EDA stage raises, the decision is exactly
\* {error: 'EDA failed', details: the exception's message}, and no stage after
\* EDA is invoked: no model file and no cache entry is touched.
C5_EdaFailure ==
    [][ (trace' # <<>> /\ trace'[1].raised) =>
            /\ decision' = [error |-> "EDA failed", details |-> trace'[1].msg]
            /\ trace'[1].stage = "generate_eda"
            /\ Len(trace') = 1
            /\ files' = files
            /\ cache' = cache ]_vars

C5_Witness ==
    /\ Decided
    /\ trace[1].stage = "generate_eda" /\ trace[1].raised
    /\ trace[1].msg = "No columns to parse"
    /\ decision.error = "EDA failed"

\* C7: a decision has exactly one of the keys error and next_action.  It has
\* error, with details and nothing else, exactly when the EDA or the training
\* stage raised; a training failure gives 'Model training failed'.
C7_ErrorOrNextAction ==
    Decided =>
        LET failed == StagesRaised \cap {"generate_eda", "train_and_evaluate_models"}
        IN  /\ ("error" \in DOMAIN decision) # ("next_action" \in DOMAIN decision)
            /\ failed # {} => DOMAIN decision = {"error", "details"}
            /\ "train_and_evaluate_models" \in failed =>
                   decision.error = "Model training failed"
            /\ failed = {} => "next_action" \in DOMAIN decision
            /\ StagesRaised = {} => "error" \notin DOMAIN decision

\* the training stage raised
C7_Witness ==
    /\ Decided
    /\ "train_and_evaluate_models" \in StagesRaised
    /\ decision.error = "Model training failed"

\* no stage raised and the decision carries a next action
C7_WitnessNoFailure ==
    /\ Decided
    /\ StagesRaised = {}
    /\ "generate_ai_insights" \in StagesInvoked
    /\ "next_action" \in DOMAIN decision

\* C15: when the insight generator raises in the AUGMENT branch, the call
\* returns a decision with the Tune action, the model results, whose best R2
\* is below the threshold, and the fixed text 'No AI insights available due to
\* an error.' under ai_insights; the decision has no error key.
C15_InsightFailureDegrades ==
    (Decided /\ "generate_ai_insights" \in StagesRaised) =>
        /\ DOMAIN decision =
               {"eda_report", "model_results", "next_action", "reason", "ai_insights"}
        /\ decision.next_action = "Tune hyperparameters or try alternative models."
        /\ decision.ai_insights = <<"No AI insights available due to an error.">>
        /\ TrainingSucceeded
        /\ BestR2(decision.model_results) < agent.model_performance_threshold

\* the generator raised after training gave results, and the decision holds
\* them with the placeholder
C15_Witness ==
    /\ Decided
    /\ trace[Len(trace)].stage = "generate_ai_insights" /\ trace[Len(trace)].raised
    /\ decision.model_results # <<>>
    /\ decision.ai_insights = NoInsightsMessage
    /\ decision.next_action = ActionTune

\* C18: when the EDA stage succeeded and the data-quality score is below
\* eda_quality_threshold, the decision is the feature-engineering action with
\* a reason citing the score and the threshold, without model_results and
\* without ai_insights; neither training, context retrieval nor the insight
\* generator is invoked: no model file and no cache entry is touched.
C18_LowDataQuality ==
    [][ (trace' # <<>> /\ ~trace'[1].raised /\ 85 < agent.eda_quality_threshold) =>
            /\ DOMAIN decision' = {"eda_report", "next_action", "reason"}
            /\ decision'.next_action = "Perform advanced feature engineering."
            /\ decision'.reason =
                   <<"Data quality score", 85, "< threshold", agent.eda_quality_threshold>>
            /\ { trace'[i].stage : i \in 1..Len(trace') } = {"generate_eda"}
            /\ files' = files
            /\ cache' = cache ]_vars

\* the threshold was raised above the score and a call returned the
\* feature-engineering action
C18_Witness ==
    /\ Decided
    /\ DataQuality < agent.eda_quality_threshold
    /\ decision.next_action = ActionFeatureEngineering
    /\ StagesInvoked = {"generate_eda"}

\* the stages of decide_next_steps in the order of the code
StageOrder ==
    <<"generate_eda", "train_and_evaluate_models", "retrieve_context", "generate_ai_insights">>

\* C22: the stages one call invoked are the first stages of the order EDA,
\* training, context retrieval, insight generation, each once; every stage
\* but the last one invoked completed without raising, so nothing follows a
\* failed stage and no stage is invoked again.
C22_StagesOnceInOrder ==
    Decided =>
        /\ Len(trace) <= 4
        /\ \A i \in 1..Len(trace) : trace[i].stage = StageOrder[i]
        /\ \A i \in 1..(Len(trace) - 1) : ~trace[i].raised

\* all four stages ran
C22_Witness ==
    /\ Decided /\ Len(trace) = 4
    /\ trace[4].stage = "generate_ai_insights"
    /\ StagesRaised = {}

\* context retrieval raised and the insight generator was not invoked
C22_WitnessStopped ==
    /\ Decided /\ Len(trace) = 3
    /\ trace[3].stage = "retrieve_context" /\ trace[3].raised
    /\ decision.next_action = ActionTune

\* result lists of at most two rows, with and without an R2 value
SampleRows ==
    { [Model |-> "SVR"], [Model |-> "SVR", R2 |-> -10],
      [Model |-> "SVR", R2 |-> 70], [Model |-> "SVR", R2 |-> 90] }

SampleResults == UNION { [1..n -> SampleRows] : n \in 0..2 }

\* the R2 values of a result list, 0 for a row without one
R2Values(results) ==
    { IF "R2" \in DOMAIN results[i] THEN results[i].R2 ELSE 0 : i \in 1..Len(results) }

\* the greatest of the values, 0 when there is none
Greatest(values) ==
    IF values = {} THEN 0 ELSE CHOOSE v \in values : \A w \in values : v >= w

\* C24: best_r2 is the greatest R2 of the result rows, a row without R2
\* counting as 0 and no rows giving 0; it is the value the decision's reason
\* cites.  When training returns no rows and model_performance_threshold is
\* 0.75, the decision is the Tune action of the AUGMENT branch, which invokes
\* the context retrieval.
C24_BestR2 ==
    /\ \A results \in SampleResults : BestR2(results) = Greatest(R2Values(results))
    /\ (Decided /\ TrainingSucceeded) =>
         /\ decision.reason[2] = Greatest(R2Values(decision.model_results))
         /\ (decision.model_results = <<>> /\ agent.model_performance_threshold = 75) =>
              /\ decision.next_action = "Tune hyperparameters or try alternative models."
              /\ decision.reason = <<"Best R2", 0, "< threshold", 75>>
              /\ "ai_insights" \in DOMAIN decision
              /\ "retrieve_context" \in StagesInvoked

\* every model failed, training returned no rows, and the call chose Tune
C24_Witness ==
    /\ Decided /\ TrainingSucceeded
    /\ decision.model_results = <<>>
    /\ agent.model_performance_threshold = DefaultModelPerformanceThreshold
    /\ decision.next_action = ActionTune

\* C30: when the AUGMENT branch is reached and gpt-4 is reported as not
\* available, the insight generator raises without any backend generation
\* call, the fallback model included, and without touching the cache; the
\* decision is the Tune action with the fixed text 'No AI insights available
\* due to an error.' under ai_insights, and no cache entry is written.
C30_UnavailableModel ==
    [][ (Len(trace') = 4 /\ ~trace'[4].available) =>
            /\ trace'[4].stage = "generate_ai_insights"
            /\ trace'[4].raised
            /\ trace'[4].chats = <<>>
            /\ trace'[4].ops = {}
            /\ cache' = cache
            /\ "error" \notin DOMAIN decision'
            /\ decision'.next_action = "Tune hyperparameters or try alternative models."
            /\ decision'.ai_insights = <<"No AI insights available due to an error.">> ]_vars

\* gpt-4 was not available in the AUGMENT branch and the decision was returned
C30_Witness ==
    /\ Decided /\ Len(trace) = 4
    /\ ~trace[4].available /\ trace[4].raised
    /\ trace[4].msg = "model is not available in Ollama"
    /\ decision.next_action = ActionTune
    /\ decision.ai_insights = NoInsightsMessage

(***************************************************************************)
(* evaluate_model: one call after another, each on any saved model and any  *)
(* frame.                                                                  *)
(***************************************************************************)

MaxColumns == 3

FeatureNames == {"a", "b", "c"}

\* the sequences over S of at most n members without repetition
Arrangements(S, n) ==
    { q \in UNION { [1..k -> S] : k \in 0..n } : Cardinality(Range(q)) = Len(q) }

\* frames: distinct column names, the target column last when there is one
EvalFrames ==
    LET feats == Arrangements(FeatureNames, MaxColumns)
    IN  feats \cup { Append(q, "target") : q \in feats }

\* saved models: one that cannot be loaded, one without _training_columns, and
\* the ones trained on one or two of the columns a, b in either order
SavedModels ==
    { [loads |-> FALSE, has_training_columns |-> FALSE, _training_columns |-> <<>>],
      [loads |-> TRUE, has_training_columns |-> FALSE, _training_columns |-> <<>>] }
    \cup { [loads |-> TRUE, has_training_columns |-> TRUE, _training_columns |-> t] :
             t \in Arrangements({"a", "b"}, 2) \ {<<>>} }

EvaluateModel ==
    \E new_df \in EvalFrames, model \in SavedModels,
       target_col \in {<<>>, <<"target">>}, predict_raises \in BOOLEAN :
        LET r == evaluate_model(new_df, model, target_col, predict_raises)
        IN  /\ evaluation' = [op |-> "evaluate_model", new_df |-> new_df,
                              model |-> model, target_col |-> target_col,
                              predict_raises |-> predict_raises,
                              outcome |-> r.outcome, exc |-> r.exc,
                              given |-> r.given, result |-> r.result]
            /\ UNCHANGED <<cache, last, run, orch, datasets, repository, concurrent>>

NextEval == EvaluateModel

SpecEval == Init /\ [][NextEval]_vars

\* a call on a loaded model that stores its training columns
Aligned ==
    /\ evaluation.op = "evaluate_model"
    /\ evaluation.model.loads
    /\ evaluation.model.has_training_columns

\* T: the stored training columns, in their stored order
StoredColumns == evaluation.model._training_columns

\* D: the feature columns of the dataset, the target removed
DatasetColumns ==
    IF evaluation.target_col = <<>> THEN Range(evaluation.new_df)
    ELSE Range(evaluation.new_df) \ {evaluation.target_col[1]}

\* C6: when T is a subset of D the alignment raises nothing, the model is
\* given exactly the columns of T in their stored order, and the call returns
\* (unless the model's own predict raises) with the columns of D outside T
\* reported as dropped; when a column of T is absent from D the call raises an
\* error naming exactly the missing columns and predict is not called.
C6_ColumnAlignment ==
    Aligned =>
        IF Range(StoredColumns) \subseteq DatasetColumns
        THEN /\ evaluation.given = <<StoredColumns>>
             /\ (evaluation.outcome = "raised") = evaluation.predict_raises
             /\ evaluation.outcome = "returned" =>
                  LET col_info == evaluation.result[1].column_info
                      dropped == DatasetColumns \ Range(StoredColumns)
                  IN  /\ col_info.used_columns = StoredColumns
                      /\ dropped # {} =>
                           /\ "extra_columns_dropped" \in DOMAIN col_info
                           /\ col_info.extra_columns_dropped = dropped
                      /\ dropped = {} => "extra_columns_dropped" \notin DOMAIN col_info
        ELSE /\ evaluation.outcome = "raised"
             /\ evaluation.exc[1].type = "ValueError"
             /\ evaluation.exc[1].msg[2] = Range(StoredColumns) \ DatasetColumns
             /\ evaluation.given = <<>>
             /\ evaluation.result = <<>>

\* the stored order differs from the frame's order and a column is dropped
C6_Witness ==
    /\ Aligned
    /\ evaluation.new_df = <<"c", "a", "b", "target">>
    /\ evaluation.target_col = <<"target">>
    /\ StoredColumns = <<"b", "a">>
    /\ evaluation.outcome = "returned"
    /\ evaluation.given = << <<"b", "a">> >>
    /\ evaluation.result[1].column_info.extra_columns_dropped = {"c"}

\* a training column is missing from the frame
C6_WitnessMissing ==
    /\ Aligned
    /\ evaluation.new_df = <<"a", "c">>
    /\ StoredColumns = <<"a", "b">>
    /\ evaluation.outcome = "raised"
    /\ evaluation.exc[1].msg[2] = {"b"}

(***************************************************************************)
(* Further claims about single calls of generate_ai_insights, under Spec.  *)
(***************************************************************************)

\* the first backend call of the call just made raised
FirstCallFailed == IsCall /\ Len(last.backend) >= 1 /\ last.backend[1].raises

\* C11: when the first backend call fails with the memory signal, exactly one
\* retry goes to mistral whatever model was requested, and a failure of the
\* retry propagates; when it fails without the signal and the requested model
\* is not gpt-4, the failure propagates at once with no second backend call;
\* no invocation makes more than two backend calls.
C11_FallbackPolicy ==
    /\ IsCall => Len(last.chats) <= 2 /\ Len(last.backend) = Len(last.chats)
    /\ (FirstCallFailed /\ HasMemorySignal(last.backend[1])) =>
         /\ last.chats = <<last.args.model_choice, "mistral">>
         /\ last.backend[2].raises =>
              /\ last.outcome = "raised"
              /\ last.exc = <<BackendError(last.backend[2].msg, 2)>>
    /\ (FirstCallFailed /\ ~HasMemorySignal(last.backend[1])
            /\ last.args.model_choice # "gpt-4") =>
         /\ last.chats = <<last.args.model_choice>>
         /\ last.outcome = "raised"
         /\ last.exc = <<BackendError(last.backend[1].msg, 1)>>

\* mistral was requested, ran out of memory, and the retry on mistral failed too
C11_Witness ==
    /\ FirstCallFailed /\ last.args.model_choice = "mistral"
    /\ HasMemorySignal(last.backend[1])
    /\ Len(last.chats) = 2 /\ last.backend[2].raises
    /\ last.outcome = "raised"

\* mistral failed without the memory signal: no retry
C11_WitnessNoRetry ==
    /\ FirstCallFailed /\ last.args.model_choice = "mistral"
    /\ ~HasMemorySignal(last.backend[1])
    /\ Len(last.chats) = 1 /\ last.outcome = "raised"

\* the backend answered the call just made: the response of its last chat
Answered == IsCall /\ last.backend # <<>> /\ ~last.backend[Len(last.backend)].raises

TheResponse == last.backend[Len(last.backend)]

\* the shapes the generator recognises
RecognisedShape(response) ==
    \/ response.kind = "dict" /\ (response.has_response \/ response.has_content)
    \/ response.kind = "str"
    \/ response.kind = "obj" /\ response.has_content

\* C19: the text of an answered call is, by precedence, the 'response' field
\* of a mapping, else the message content of a mapping, else the cleaned raw
\* string, else the message.content attribute of an object, each trimmed; any
\* other shape makes the call raise a ValueError and write no cache entry.
C19_NormalisationPrecedence ==
    Answered =>
        LET r == TheResponse
            text == IF r.kind = "dict" /\ r.has_response THEN r.response
                    ELSE IF r.kind = "dict" THEN r.content
                    ELSE IF r.kind = "str" THEN clean_response(r.response)
                    ELSE r.content
        IN  IF RecognisedShape(r)
            THEN /\ last.outcome = "returned"
                 /\ last.text = Strip(text)
            ELSE /\ last.outcome = "raised"
                 /\ last.exc # <<>> /\ last.exc[1].type = "ValueError"
                 /\ "write" \notin last.ops
                 /\ FileAt(cache, KeyOf(last.args)) \in {last.before, <<>>}

\* a mapping with both fields gave its 'response' field
C19_Witness ==
    /\ Answered
    /\ TheResponse = DictResponse(TRUE, TextA, TRUE, TextB)
    /\ last.outcome = "returned" /\ last.text = TextA

\* a mapping with neither field made the call raise, the entry left as it was
C19_WitnessUnexpected ==
    /\ Answered
    /\ TheResponse = DictResponse(FALSE, <<>>, FALSE, <<>>)
    /\ last.outcome = "raised" /\ last.exc[1].type = "ValueError"
    /\ last.before # <<>> /\ FileAt(cache, KeyOf(last.args)) = last.before

\* the text has no bracketed uppercase token, no end-of-sequence marker and no
\* run of more than one whitespace symbol, and is trimmed
IsClean(text) ==
    /\ \A i \in 1..Len(text) : TokenLen(text, i) = 0
    /\ \A i \in 1..Len(text) : text[i] # EOS
    /\ \A i \in 1..(Len(text) - 1) : ~(text[i] \in Whitespace /\ text[i + 1] \in Whitespace)
    /\ Strip(text) = text

\* C20 as stated: for every recognised shape the text returned and the text
\* written to the cache are clean.
C20_Original ==
    (Answered /\ RecognisedShape(TheResponse) /\ last.outcome = "returned") =>
        /\ IsClean(last.text)
        /\ "write" \in last.ops => IsClean(cache[KeyOf(last.args)].insights)

\* a mapping's 'response' field came back, and went into the cache, trimmed and
\* with its control token
C20_DictTextUncleaned ==
    /\ Answered /\ TheResponse.kind = "dict" /\ last.outcome = "returned"
    /\ "write" \in last.ops
    /\ ~IsClean(last.text)
    /\ cache[KeyOf(last.args)].insights = last.text

\* a raw string came back cleaned once and holds a token all the same
C20_StrTokenLeft ==
    /\ Answered /\ TheResponse.kind = "str" /\ last.outcome = "returned"
    /\ \E i \in 1..Len(last.text) : TokenLen(last.text, i) > 0

\* the call just made fell back to mistral and returned non-empty text
FellBack ==
    /\ IsCall /\ last.outcome = "returned" /\ last.text # <<>>
    /\ last.chats = <<last.args.model_choice, "mistral">>

\* the step is a call for the key of the call before it, not forced and admitted
SameKeyAgain ==
    /\ last'.op = "generate_ai_insights"
    /\ KeyOf(last'.args) = KeyOf(last.args)
    /\ ~last'.args.force_regenerate /\ ~last'.args.clear_cache
    /\ last'.available

C21_WitnessServed ==
    /\ IsCall /\ NotForced /\ last.args.model_choice = "gpt-4"
    /\ last.chats = <<>> /\ last.outcome = "returned"
    /\ last.before = <<[insights |-> last.text]>>
    /\ last.text = TextB

\* C25: an admitted call with force_regenerate or clear_cache that raises,
\* the backend having failed with the fallback policy exhausted or having
\* answered in an unrecognised shape, has removed the entry its key had
\* before the call and leaves the key without an entry.
C25_FailedForcedCallDeletes ==
    (Admitted /\ ~NotForced /\ last.outcome = "raised" /\ last.before # <<>>) =>
        /\ Len(last.chats) >= 1
        /\ "remove" \in last.ops
        /\ "write" \notin last.ops
        /\ LastFile = <<>>

\* a forced call found an entry, both backend calls raised, the entry is gone
C25_Witness ==
    /\ Admitted /\ last.args.force_regenerate /\ last.outcome = "raised"
    /\ last.before # <<>> /\ last.before[1].insights # <<>>
    /\ Len(last.chats) = 2 /\ last.backend[2].raises
    /\ LastFile = <<>>

\* a clearing call found an entry, the answer had no recognised shape, the
\* entry is gone
C25_WitnessShape ==
    /\ Admitted /\ last.args.clear_cache /\ ~last.args.force_regenerate
    /\ last.outcome = "raised" /\ last.exc[1].type = "ValueError"
    /\ last.before # <<>> /\ LastFile = <<>>

(***************************************************************************)
(* Specification SpecData: uploads are preprocessed and saved, the routes   *)
(* resolve dataset ids and save feature-engineered frames, time passes.    *)
(***************************************************************************)

\* the snapshot saves of one behaviour
MaxSaves == 3

\* the seconds that pass
MaxClock == 1

StageFolders == {OriginalFolder, ProcessedFolder, FeatureEngineeredFolder}

\* uploaded frames: two with rows, one without
Uploads ==
    { [rows |-> 5, columns |-> {"target", "feature1"}, data |-> <<"sales">>],
      [rows |-> 5, columns |-> {"target", "feature1"}, data |-> <<"stock">>],
      [rows |-> 0, columns |-> {"target", "feature1"}, data |-> <<"empty">>] }

\* the value of the next uuid.uuid4() call but n: a value never given before
Uuid(n) == <<"uuid", uuids + n>>

\* the ids a caller may send: the stem of a saved file, or an id nothing was
\* saved under
RequestIds == { p[2] : p \in DOMAIN store } \cup { <<"uuid", 0>> }

\* the saves of one call, each with whether its path was free when written
SaveRecords(st, written) ==
    [ i \in 1..Len(written) |->
        [path |-> written[i].path, df |-> written[i].df,
         fresh |-> /\ written[i].path \notin DOMAIN st
                   /\ \A j \in 1..(i - 1) : written[j].path # written[i].path] ]

\* POST /preprocessing: one call of run_preprocessing_pipeline
Preprocess ==
    /\ Len(saves) + 2 <= MaxSaves
    /\ \E df \in Uploads, save_processed \in BOOLEAN :
         LET r == run_preprocessing_pipeline(store, df, save_processed, Uuid(1), Uuid(2))
         IN  /\ store' = r.store
             /\ saves' = saves \o SaveRecords(store, r.written)
             /\ uuids' = uuids + Len(r.written)
             /\ resolution' = NoResolution
             /\ UNCHANGED <<cache, last, run, orch, evaluation, repository, concurrent>>

\* POST /advanced/
AdvancedFeatureEngineering ==
    /\ Len(saves) < MaxSaves
    /\ \E file \in {<<>>} \cup {<<u>> : u \in Uploads},
          dataset_id \in {<<>>} \cup {<<i>> : i \in RequestIds},
          folder \in StageFolders, save_result \in BOOLEAN :
         LET r == advanced_feature_engineering(store, files, clock, file, dataset_id,
                                               folder, save_result)
         IN  /\ store' = r.store
             /\ saves' = saves \o SaveRecords(store, r.written)
             /\ resolution' = r.resolution
             /\ UNCHANGED <<cache, last, run, orch, evaluation, uuids, repository, concurrent>>

\* GET /columns/
GetDatasetColumns ==
    \E dataset_id \in RequestIds, folder \in StageFolders :
         LET r == get_dataset_columns(store, files, dataset_id, folder)
         IN  /\ resolution' = r.resolution
             /\ UNCHANGED <<cache, last, run, orch, evaluation, store, saves, uuids, repository, concurrent>>

\* POST /train/
TrainModels ==
    \E file \in {<<>>} \cup {<<u>> : u \in Uploads},
       id \in {<<>>} \cup {<<i>> : i \in RequestIds},
       dataset_source \in {"original", "preprocessed", "feature_engineered"},
       ok \in BOOLEAN :
         LET fit == [m \in {"LinearRegression"} |-> [ok |-> ok, r2 |-> 90]]
             r == train_models(store, files, clock, file, id, dataset_source, fit)
         IN  /\ resolution' = r.resolution
             /\ files' = r.files
             /\ UNCHANGED <<cache, last, run, agent, clock, decision, trace,
                            evaluation, store, saves, uuids, repository, concurrent>>

\* a second passes
Tick ==
    /\ clock < MaxClock
    /\ clock' = clock + 1
    /\ resolution' = NoResolution
    /\ UNCHANGED <<cache, last, run, agent, files, decision, trace,
                   evaluation, store, saves, uuids, repository, concurrent>>

NextData ==
    \/ Preprocess \/ AdvancedFeatureEngineering \/ GetDatasetColumns
    \/ TrainModels \/ Tick

SpecData == Init /\ [][NextData]_vars

\* a route call has resolved, or failed to resolve, a dataset id
Resolving == resolution.route # "none"

RequestedPath == DatasetPath(resolution.folder, resolution.dataset_id)

\* the folder the stated rule falls back to, if any
AlternateFolders ==
    IF resolution.folder = ProcessedFolder THEN {OriginalFolder}
    ELSE IF resolution.folder = OriginalFolder THEN {ProcessedFolder}
    ELSE {}

\* C12 as stated: the file of the requested stage's folder is used when it
\* exists; else a processed request uses the original folder and an original
\* request the processed folder; a feature_engineered request is never served
\* from another folder; with no candidate file the resolution fails.
C12_Original ==
    Resolving =>
        /\ resolution.folder \in resolution.existing =>
             resolution.found /\ resolution.path = <<RequestedPath>>
        /\ \A alt \in AlternateFolders :
             (resolution.folder \notin resolution.existing /\ alt \in resolution.existing) =>
                 /\ resolution.found
                 /\ resolution.path = <<DatasetPath(alt, resolution.dataset_id)>>
        /\ (resolution.folder = FeatureEngineeredFolder /\ resolution.found) =>
             resolution.path = <<RequestedPath>>
        /\ resolution.existing \cap ({resolution.folder} \cup AlternateFolders) = {} =>
             ~resolution.found

\* POST /advanced/ asked for the feature_engineered stage and was served the
\* file of the processed folder
C12_ServedFromOtherStage ==
    /\ Resolving /\ resolution.route = "advanced"
    /\ resolution.folder = FeatureEngineeredFolder
    /\ resolution.found
    /\ resolution.path = <<DatasetPath(ProcessedFolder, resolution.dataset_id)>>

\* C13 as stated: every snapshot save writes a new file named by a freshly
\* generated UUID, no save overwrites an existing snapshot file, and every
\* earlier snapshot is still present with the content it was saved with.
C13_Original ==
    \A i \in 1..Len(saves) :
        /\ saves[i].path[2][1] = "uuid"
        /\ saves[i].fresh
        /\ saves[i].path \in DOMAIN store
        /\ store[saves[i].path] = saves[i].df

\* two feature-engineered frames were saved within one second: the second
\* save replaced the file of the first, whose content is lost
C13_SnapshotOverwritten ==
    \E i \in 1..Len(saves) :
        /\ saves[i].path[1] = FeatureEngineeredFolder
        /\ saves[i].fresh
        /\ store[saves[i].path] # saves[i].df

(***************************************************************************)
(* Specification SpecModels: models are trained into the repository, the   *)
(* analysis is restarted, saved models are evaluated.                      *)
(***************************************************************************)

\* the restarts of one behaviour
MaxResets == 2

\* frames given to training: one that trains, one without rows
TrainFrames ==
    { [rows |-> 5, columns |-> {"target", "feature1", "feature2"}],
      [rows |-> 0, columns |-> {"target", "feature1", "feature2"}] }

\* the models asked for: two known ones, or a known and an unknown one
SelectedModels ==
    { <<"LinearRegression", "RandomForestRegressor">>, <<"Unknown", "LinearRegression">> }

TrainFits ==
    [{"LinearRegression", "RandomForestRegressor"} ->
        {[ok |-> FALSE, r2 |-> 0], [ok |-> TRUE, r2 |-> 90]}]

\* the session ids a caller may send: none, or one a restart has issued
SessionIds == {<<>>} \cup { <<s>> : s \in reset.issued }

\* The records reset.before, reset.stuck, training and evaluation describe the
\* call just made: a call of another kind clears them.
Forgotten(r) == [r EXCEPT !.before = {}, !.stuck = {}]

\* one direct call of train_and_evaluate_models
Train ==
    \E df \in TrainFrames, selected_models \in SelectedModels :
      \E session_id \in SessionIds, fit \in TrainFits :
        LET r == train_and_evaluate_models(files, clock, df, "target", selected_models,
                     {"RMSE", "R2"}, ModelsDir, session_id, fit)
        IN  /\ files' = r.files
            /\ training' = [op |-> "train_and_evaluate_models", df |-> df,
                            selected_models |-> selected_models, fit |-> fit,
                            model_folder |-> ModelFolder(ModelsDir, session_id),
                            raised |-> r.raised, exc |-> r.exc,
                            results |-> r.results,
                            trained_models |-> r.trained_models]
            /\ reset' = Forgotten(reset)
            /\ evaluation' = NoEvaluation
            /\ UNCHANGED <<cache, last, run, agent, clock, decision, trace, datasets, concurrent>>

\* A restart finds a training call between its os.makedirs and its first
\* joblib.dump and removes the folder of the call: the call is marked.  left
\* is what shutil.rmtree leaves.
Cleared(r, left) ==
    IF r.pc = "train" /\ r.attempts = 0 /\ <<r.folder>> \notin left
    THEN [r EXCEPT !.cleared = TRUE] ELSE r

\* POST /restart-analysis.  At most one file resists removal.
Reset ==
    /\ reset.n < MaxResets
    /\ \E stuck \in {{}} \cup { {e} : e \in { x \in UnderModels(files) : IsFile(x) } } :
         LET r == restart_analysis(files, Uuid(1), stuck)
         IN  /\ files' = r.files
             /\ uuids' = uuids + 1
             /\ reset' = [n |-> reset.n + 1, session_id |-> <<r.session_id>>,
                          issued |-> reset.issued \cup {r.session_id},
                          before |-> files, stuck |-> stuck]
             /\ training' = NoTraining
             /\ evaluation' = NoEvaluation
             /\ contents' = [x \in DOMAIN contents \cap r.files |-> contents[x]]
             /\ runs' = [t \in Threads |-> Cleared(runs[t], RemoveTree(files, stuck))]
             /\ UNCHANGED <<cache, last, run, agent, clock, decision, trace,
                            store, resolution, saves, calls, writes, dumps>>

\* the requests POST /evaluate/ receives: an uploaded frame or none, a model
\* file name that some training wrote or one nobody wrote
EvaluateRequests ==
    [file : {<<>>, <<[rows |-> 5, columns |-> <<"a", "b", "target">>]>>},
     dataset_id : {<<>>},
     model_file : { e[2] : e \in { x \in files : IsFile(x) } } \cup {<<"absent">>},
     has_target : BOOLEAN, target_col : {"target"},
     session_id : SessionIds]

\* what a model file holds: a model trained on the columns a and b
StoredModel == [loads |-> TRUE, has_training_columns |-> TRUE, _training_columns |-> <<"a", "b">>]

\* one POST /evaluate/
Evaluate ==
    \E req \in EvaluateRequests, predict_raises \in BOOLEAN :
        LET r == evaluate(store, files, req, <<>>, StoredModel, predict_raises)
        IN  /\ evaluation' = [op |-> "evaluate", model_file |-> req.model_file,
                              session_id |-> req.session_id, status |-> r.status,
                              model_path |-> r.model_path]
            /\ reset' = Forgotten(reset)
            /\ training' = NoTraining
            /\ UNCHANGED <<cache, last, run, orch, datasets, concurrent>>

NextModels == Train \/ Reset \/ Evaluate

SpecModels == Init /\ [][NextModels]_vars

(***************************************************************************)
(* Claims about the model repository, under SpecModels.                    *)
(***************************************************************************)

\* the entry lies in the folder or deeper
Below(entry, folder) ==
    Len(entry[1]) >= Len(folder) /\ SubSeq(entry[1], 1, Len(folder)) = folder

\* the session id under which the entry of a model file is looked up
SessionOf(entry) == IF Len(entry[1]) > 1 THEN <<entry[1][2]>> ELSE <<>>

\* the step is a restart
IsReset == reset'.n # reset.n

\* What a restart leaves.  All the files of the model are model artifacts, so
\* the artifacts written before the restart are the files of the state it
\* starts in.  removed tells whether the restart counts as successful.
ResetOutcome(removed) ==
    LET new == reset'.session_id[1]
        ids == {<<>>} \cup { <<s>> : s \in reset'.issued }
    IN  /\ new \notin reset.issued
        /\ <<SessionFolder(new)>> \in files'
        /\ { e \in files' : Below(e, SessionFolder(new)) } = {<<SessionFolder(new)>>}
        /\ \A e \in reset'.stuck : ResolveModel(files', e[2], SessionOf(e)).found
        /\ removed =>
             /\ \A e \in files : Below(e, ModelsDir) /\ e # <<ModelsDir>> => e \notin files'
             /\ \A e \in files : IsFile(e) =>
                  \A sid \in ids : /\ ~ResolveModel(files', e[2], sid).found
                                   /\ e[2] \notin list_models(files', sid)

C14_ArtifactSurvives ==
    /\ reset.n > 0 /\ reset.stuck # {}
    /\ \E e \in reset.stuck : ResolveModel(files, e[2], <<>>).found

\* a direct call of train_and_evaluate_models has been made and is the last call
Trained == training.op = "train_and_evaluate_models"

\* the selected models that exist, and those of them whose training fails
KnownSelected ==
    { training.selected_models[i] : i \in 1..Len(training.selected_models) }
        \cap {"LinearRegression", "RandomForestRegressor", "GradientBoostingRegressor", "SVR"}

FailedSelected == { m \in KnownSelected : ~training.fit[m].ok }

ResultModels == { training.results[i].Model : i \in 1..Len(training.results) }

\* C16: a call on a frame that can be split returns normally whatever the
\* single models do.  A model whose fitting, scoring or saving fails is in
\* neither results nor trained_models; every other selected model that exists
\* has exactly one row in results; the keys of trained_models are the models
\* of the rows; when every model fails, results is empty.
C16_ModelFailureCaught ==
    (Trained /\ training.df.rows >= 2 /\ "target" \in training.df.columns) =>
        /\ ~training.raised
        /\ ResultModels = KnownSelected \ FailedSelected
        /\ Len(training.results) = Cardinality(ResultModels)
        /\ DOMAIN training.trained_models = ResultModels
        /\ (FailedSelected = KnownSelected) => training.results = <<>>

\* the first model failed and the second one was trained
C16_Witness ==
    /\ Trained /\ ~training.raised
    /\ training.selected_models = <<"LinearRegression", "RandomForestRegressor">>
    /\ FailedSelected = {"LinearRegression"}
    /\ ResultModels = {"RandomForestRegressor"}
    /\ DOMAIN training.trained_models = {"RandomForestRegressor"}

\* every model failed and the call returned empty results
C16_WitnessAllFail ==
    /\ Trained /\ ~training.raised
    /\ FailedSelected = KnownSelected
    /\ training.results = <<>>
    /\ training.trained_models = <<>>

\* os.path.exists(value) for a value of trained_models: a name without a
\* folder is looked up in the working directory, the folder of no parts
ExistsAsPath(value) == <<<<>>, value>> \in files

\* C17 as stated: after a call that returned, every value of trained_models is
\* a path at which a file exists.
C17_Original ==
    (Trained /\ ~training.raised) =>
        \A m \in DOMAIN training.trained_models : ExistsAsPath(training.trained_models[m])

\* a call returned a value that is the name of the artifact inside the model
\* folder and is not a path of a file
C17_ValueIsFileName ==
    /\ Trained /\ ~training.raised
    /\ \E m \in DOMAIN training.trained_models :
         /\ ~ExistsAsPath(training.trained_models[m])
         /\ <<training.model_folder, training.trained_models[m]>> \in files

(***************************************************************************)
(* Specification SpecRace: two threads serve generate_ai_insights calls at *)
(* the same time.  A call advances by the steps of its code that touch the *)
(* cache directory or the backend; the steps of the two calls interleave.  *)
(* Here a cache file may hold content json.load cannot parse, and a write  *)
(* may fail.  A round ends when both calls are over.                       *)
(***************************************************************************)

\* the content of a cache file that is not the JSON the generator writes
Corrupt == [corrupt |-> TRUE]

IsCorrupt(entry) == "corrupt" \in DOMAIN entry

\* the calls of a round ask mistral with one prompt: they share the cache key
RaceArgs == { a \in CallArgs : a.model_choice = "mistral" }

RaceKey == <<"mistral", BuildPrompt(<<"e">>, <<>>, 1500, FALSE)>>

RaceOutcomes ==
    { Raises("connection refused"),
      DictResponse(TRUE, TextA, FALSE, <<>>),
      DictResponse(TRUE, TextB, FALSE, <<>>),
      DictResponse(FALSE, <<>>, FALSE, <<>>) }

\* what the cache file of the key may hold when a round starts
RaceContents ==
    { <<>>, [f \in {RaceKey} |-> [insights |-> TextA]],
      [f \in {RaceKey} |-> [insights |-> <<>>]], [f \in {RaceKey} |-> Corrupt] }

\* a call that passed validation, before line 96
NewCall(args, c) ==
    [pc |-> "check_remove", args |-> args, before |-> FileAt(c, KeyOf(args)),
     text |-> <<>>, exc |-> <<>>, chats |-> <<>>, read |-> "none",
     write |-> "none", insights |-> <<>>]

Over(t) == calls[t].pc \in {"returned", "raised"}

At(t, pc) == calls[t].pc = pc

\* the call of thread t becomes c, everything but the calls and the cache
\* stays
Advance(t, c) ==
    /\ calls' = [calls EXCEPT ![t] = c]
    /\ UNCHANGED <<last, run, orch, evaluation, datasets, repository, runs, contents, dumps>>

\* lines 63-71: a call arrives and is validated
BeginCall(t) ==
    /\ At(t, "idle")
    /\ \E args \in RaceArgs, available \in BOOLEAN :
         LET invalid == Validate(args.model_choice, available)
         IN  Advance(t, IF invalid # <<>>
                        THEN [NewCall(args, cache) EXCEPT !.pc = "raised", !.exc = invalid]
                        ELSE NewCall(args, cache))
    /\ UNCHANGED <<cache, writes>>

\* line 96: (force_regenerate or clear_cache) and os.path.exists(cache_file)
CheckRemove(t) ==
    /\ At(t, "check_remove")
    /\ LET a == calls[t].args
       IN  Advance(t, [calls[t] EXCEPT !.pc =
               IF ShouldRemove(cache, KeyOf(a), a.force_regenerate, a.clear_cache)
               THEN "remove" ELSE "check_read"])
    /\ UNCHANGED <<cache, writes>>

\* line 98: os.remove(cache_file).  It raises FileNotFoundError when the file
\* is no longer there; nothing catches it before line 173.
Remove(t) ==
    /\ At(t, "remove")
    /\ LET f == KeyOf(calls[t].args)
       IN  IF f \in DOMAIN cache
           THEN /\ cache' = RemoveFile(cache, f)
                /\ Advance(t, [calls[t] EXCEPT !.pc = "check_read"])
           ELSE /\ cache' = cache
                /\ Advance(t, [calls[t] EXCEPT !.pc = "raised", !.exc =
                       <<[type |-> "FileNotFoundError", msg |-> "cache file", attempt |-> 0]>>])
    /\ UNCHANGED writes

\* line 99: not force_regenerate and os.path.exists(cache_file)
CheckRead(t) ==
    /\ At(t, "check_read")
    /\ LET a == calls[t].args
       IN  Advance(t, [calls[t] EXCEPT !.pc =
               IF ShouldLookup(cache, KeyOf(a), a.force_regenerate)
               THEN "read" ELSE "chat"])
    /\ UNCHANGED <<cache, writes>>

\* variant: a failed read ends the call
ReadOrRaise(t) ==
    /\ At(t, "read")
    /\ LET f == KeyOf(calls[t].args)
           failed == f \notin DOMAIN cache \/ IsCorrupt(cache[f])
       IN  Advance(t,
               IF failed
               THEN [calls[t] EXCEPT !.pc = "raised", !.read = "failed", !.exc =
                        <<[type |-> "JSONDecodeError", msg |-> "cache file", attempt |-> 0]>>]
               ELSE IF CachedInsights(cache, f) # <<>>
               THEN [calls[t] EXCEPT !.pc = "returned", !.read = "hit",
                                     !.text = CachedInsights(cache, f)]
               ELSE [calls[t] EXCEPT !.pc = "chat", !.read = "empty"])
    /\ UNCHANGED <<cache, writes>>

\* lines 101-113: open, json.load, get, strip.  A file that is gone or that
\* cannot be parsed raises inside the try: the call goes on to the backend.
Read(t) ==
    /\ At(t, "read")
    /\ LET f == KeyOf(calls[t].args)
           failed == f \notin DOMAIN cache \/ IsCorrupt(cache[f])
       IN  Advance(t,
               IF failed THEN [calls[t] EXCEPT !.pc = "chat", !.read = "failed"]
               ELSE IF CachedInsights(cache, f) # <<>>
               THEN [calls[t] EXCEPT !.pc = "returned", !.read = "hit",
                                     !.text = CachedInsights(cache, f)]
               ELSE [calls[t] EXCEPT !.pc = "chat", !.read = "empty"])
    /\ UNCHANGED <<cache, writes>>

\* lines 114-161: the backend call with its fallback, the normalisation and
\* the strip
Chat(t) ==
    /\ At(t, "chat")
    /\ \E first \in RaceOutcomes, second \in RaceOutcomes :
         LET gen == CallBackend(calls[t].args.model_choice, first, second)
             norm == Normalize(gen.response)
             insights == Strip(norm.insights)
             c == [calls[t] EXCEPT !.chats = gen.chats]
         IN  /\ first.raises \/ second = first
             /\ Advance(t,
                  IF ~gen.ok THEN [c EXCEPT !.pc = "raised", !.exc = gen.exc]
                  ELSE IF ~norm.ok
                  THEN [c EXCEPT !.pc = "raised", !.exc = <<ValueError("Unexpected response")>>]
                  ELSE IF ShouldCache(insights)
                  THEN [c EXCEPT !.pc = "write", !.insights = insights]
                  ELSE [c EXCEPT !.pc = "returned", !.insights = insights])
    /\ UNCHANGED <<cache, writes>>

\* variant: a file that exists is not written again
WriteOnce(t) ==
    /\ At(t, "write")
    /\ LET f == KeyOf(calls[t].args)
       IN  /\ cache' = IF f \in DOMAIN cache THEN cache
                       ELSE WriteFile(cache, f, calls[t].insights)
           /\ writes' = Append(writes, t)
           /\ Advance(t, [calls[t] EXCEPT !.pc = "returned", !.write = "ok",
                                          !.text = calls[t].insights])

\* lines 162-172: open(cache_file, "w") and json.dump inside a try, then the
\* return.  The write succeeds, or open fails and the file is as it was, or
\* the dump fails and leaves a file cut short.
Write(t) ==
    /\ At(t, "write")
    /\ \E kind \in {"ok", "failed", "truncated"} :
         LET f == KeyOf(calls[t].args)
         IN  /\ cache' = IF kind = "ok" THEN WriteFile(cache, f, calls[t].insights)
                         ELSE IF kind = "failed" THEN cache
                         ELSE [x \in DOMAIN cache \cup {f} |->
                                  IF x = f THEN Corrupt ELSE cache[x]]
             /\ writes' = IF kind = "failed" THEN writes ELSE Append(writes, t)
             /\ Advance(t, [calls[t] EXCEPT !.pc = "returned", !.write = kind,
                                            !.text = calls[t].insights])

\* both calls are over: the threads are free again, and the cache file of the
\* key is whatever it is when the next round starts
NextRound ==
    /\ \A t \in Threads : Over(t)
    /\ calls' = [t \in Threads |-> IdleCall]
    /\ writes' = <<>>
    /\ cache' \in RaceContents
    /\ UNCHANGED <<last, run, orch, evaluation, datasets, repository, runs, contents, dumps>>

NextRace ==
    \/ \E t \in Threads :
         \/ BeginCall(t) \/ CheckRemove(t) \/ Remove(t) \/ CheckRead(t)
         \/ Read(t) \/ Chat(t) \/ Write(t)
    \/ NextRound

SpecRace == Init /\ [][NextRace]_vars

(***************************************************************************)
(* Claims about concurrent generate_ai_insights calls, under SpecRace.     *)
(***************************************************************************)

Serving(t) == calls[t].pc # "idle"

\* no call of the round removes the entry
NeitherForced ==
    \A t \in Threads :
        Serving(t) => ~calls[t].args.force_regenerate /\ ~calls[t].args.clear_cache

\* C23: when the calls of a round do not force, the cache file of their key
\* holds, after any write, what the call that wrote last put there; two such
\* calls can both find no entry, both call the backend and both write.
C23_LastWriteWins ==
    (NeitherForced /\ writes # <<>>) =>
        LET t == writes[Len(writes)]
        IN  /\ RaceKey \in DOMAIN cache
            /\ cache[RaceKey] = IF calls[t].write = "ok"
                                THEN [insights |-> calls[t].text] ELSE Corrupt

\* both calls missed, both asked the backend, both wrote: the text of the
\* first writer is gone
C23_Witness ==
    /\ NeitherForced /\ \A t \in Threads : calls[t].pc = "returned"
    /\ \A t \in Threads : /\ calls[t].before = <<>> /\ calls[t].read = "none"
                          /\ Len(calls[t].chats) = 1 /\ calls[t].write = "ok"
    /\ writes = <<1, 2>>
    /\ calls[1].text = TextA /\ calls[2].text = TextB
    /\ cache[RaceKey].insights = TextB

\* C26 as stated: two forcing calls that started with an entry both end
\* without an error of the cache.
C26_Original ==
    (\A t \in Threads : Serving(t) /\ calls[t].args.force_regenerate
                                   /\ calls[t].before # <<>>) =>
        \A t \in Threads :
            calls[t].pc = "raised" => calls[t].exc[1].type # "FileNotFoundError"

\* both calls saw the entry at line 96; one removed it, and os.remove of the
\* other raised before any backend call
C26_RemovalRace ==
    /\ \A t \in Threads : Serving(t) /\ calls[t].args.force_regenerate
                                     /\ calls[t].before # <<>>
    /\ calls[2].pc = "raised" /\ calls[2].exc[1].type = "FileNotFoundError"
    /\ calls[2].chats = <<>>
    /\ calls[1].pc \notin {"check_remove", "remove"}

\* C27: a call whose read of the cache file failed, the file being unparsable
\* or gone since the existence check, goes on to the backend as after a miss
\* and ends with what the generation gives; a call whose write failed returns
\* the generated text.
C27_CacheFailuresAbsorbed ==
    \A t \in Threads :
        /\ (Serving(t) /\ calls[t].read = "failed") =>
             /\ calls[t].pc \in {"chat", "write", "returned", "raised"}
             /\ Over(t) => Len(calls[t].chats) = 1
             /\ calls[t].pc = "raised" =>
                    calls[t].exc[1].type \in {"BackendError", "ValueError"}
        /\ (Serving(t) /\ calls[t].write \in {"failed", "truncated"}) =>
             /\ calls[t].pc = "returned"
             /\ calls[t].text = calls[t].insights /\ calls[t].text # <<>>

\* the entry was unparsable, the call generated, the write failed, and the
\* text came back
C27_Witness ==
    /\ calls[1].pc = "returned" /\ calls[1].before = <<Corrupt>>
    /\ calls[1].read = "failed" /\ Len(calls[1].chats) = 1
    /\ calls[1].write = "failed" /\ calls[1].text = TextA

\* the entry was readable when the call checked for it and gone when it read
C27_WitnessRemoved ==
    /\ Over(1) /\ calls[1].before = <<[insights |-> TextA]>>
    /\ calls[1].read = "failed" /\ Len(calls[1].chats) = 1
    /\ Serving(2) /\ calls[2].write = "none"

(***************************************************************************)
(* Specification SpecJobs: two threads serve train_and_evaluate_models     *)
(* calls at the same time, the analysis is restarted, time passes.  A call *)
(* advances model by model; each thread serves one call.                   *)
(***************************************************************************)

JobFrames ==
    { [rows |-> 5, columns |-> {"target", "feature1"}],
      [rows |-> 0, columns |-> {"target", "feature1"}] }

JobModels == { <<"LinearRegression">>, <<"LinearRegression", "RandomForestRegressor">> }

\* a call after lines 134-163: its folder exists, its models wait.  lost
\* counts the fitted models whose dump failed.
NewRun(folder, models) ==
    [pc |-> "train", folder |-> folder, models |-> models, attempts |-> 0,
     results |-> <<>>, trained_models |-> <<>>, exc |-> <<>>,
     cleared |-> FALSE, remade |-> FALSE, lost |-> 0]

\* another call's os.makedirs brings back the folder a restart took from r
Remade(r, folder) ==
    IF r.pc = "train" /\ r.cleared /\ r.folder = folder
    THEN [r EXCEPT !.remade = TRUE] ELSE r

\* lines 133-163: the folder is made, the frame is checked and split
BeginRun(t) ==
    /\ runs[t].pc = "idle"
    /\ \E df \in JobFrames, selected_models \in JobModels, session_id \in SessionIds :
         LET folder == ModelFolder(ModelsDir, session_id)
             error == TrainingError(df, "target")
             models_to_train == SelectSeq(selected_models, LAMBDA m : m \in RegressionModels)
             r == IF error # <<>>
                  THEN [NewRun(folder, <<>>) EXCEPT !.pc = "raised", !.exc = error]
                  ELSE NewRun(folder, models_to_train)
         IN  /\ files' = MakeDirs(files, folder)
             /\ runs' = [u \in Threads |-> IF u = t THEN r ELSE Remade(runs[u], folder)]
    /\ reset' = Forgotten(reset)
    /\ UNCHANGED <<cache, last, run, agent, clock, decision, trace, evaluation,
                   datasets, training, calls, writes, contents, dumps>>

\* variant: a dump that fails ends the call
TrainModelOrRaise(t) ==
    /\ runs[t].pc = "train" /\ runs[t].models # <<>>
    /\ <<runs[t].folder>> \notin files
    /\ runs' = [runs EXCEPT ![t] = [runs[t] EXCEPT !.pc = "raised", !.attempts = 1,
                                       !.exc = <<"No such file or directory">>]]
    /\ UNCHANGED <<cache, last, run, orch, evaluation, datasets, repository,
                   calls, writes, contents, dumps>>

\* lines 166-208, one turn of the loop: the model is fitted and scored, then
\* dumped under the name the clock gives at that moment.  joblib.dump fails
\* when the folder is not there; any failure skips the model.
TrainModel(t) ==
    /\ runs[t].pc = "train" /\ runs[t].models # <<>>
    /\ \E fitted \in BOOLEAN :
         LET r == runs[t]
             model_name == Head(r.models)
             model_filename == ModelFilename(model_name, clock)
             model_path == <<r.folder, model_filename>>
             saved == fitted /\ <<r.folder>> \in files
             next == [r EXCEPT !.models = Tail(r.models), !.attempts = r.attempts + 1]
         IN  IF saved
             THEN /\ files' = files \cup {model_path}
                  /\ contents' = [x \in DOMAIN contents \cup {model_path} |->
                                     IF x = model_path THEN t ELSE contents[x]]
                  /\ dumps' = Append(dumps, [run |-> t, model |-> model_name,
                                             path |-> model_path, at |-> clock,
                                             resets |-> reset.n])
                  /\ runs' = [runs EXCEPT ![t] =
                        [next EXCEPT !.results = Append(r.results,
                                         ResultRow(model_name, {"R2"}, 90)),
                                     !.trained_models =
                                         [m \in DOMAIN r.trained_models \cup {model_name} |->
                                             IF m = model_name THEN model_filename
                                             ELSE r.trained_models[m]]]]
             ELSE /\ runs' = [runs EXCEPT ![t] =
                        [next EXCEPT !.lost = IF fitted THEN r.lost + 1 ELSE r.lost]]
                  /\ UNCHANGED <<files, contents, dumps>>
    /\ reset' = Forgotten(reset)
    /\ UNCHANGED <<cache, last, run, agent, clock, decision, trace, evaluation,
                   datasets, training, calls, writes>>

\* lines 209-222: the loop is over, the call returns
ReturnRun(t) ==
    /\ runs[t].pc = "train" /\ runs[t].models = <<>>
    /\ runs' = [runs EXCEPT ![t] = [runs[t] EXCEPT !.pc = "returned"]]
    /\ UNCHANGED <<cache, last, run, orch, evaluation, datasets, repository,
                   calls, writes, contents, dumps>>

NextJobs ==
    \/ \E t \in Threads : BeginRun(t) \/ TrainModel(t) \/ ReturnRun(t)
    \/ Reset
    \/ Tick

SpecJobs == Init /\ [][NextJobs]_vars

(***************************************************************************)
(* Claims about concurrent training calls and restarts, under SpecJobs.    *)
(***************************************************************************)

\* a restart came between the os.makedirs of the call of thread t and its
\* first dump, and the call has tried a model since
ResetBeforeWrite(t) ==
    runs[t].pc # "idle" /\ runs[t].cleared /\ runs[t].attempts >= 1

\* the call of thread t goes on, none of its models in results or
\* trained_models, none of its artifacts written
NothingTrained(t) ==
    /\ runs[t].pc \in {"train", "returned"}
    /\ runs[t].results = <<>> /\ runs[t].trained_models = <<>>
    /\ runs[t].lost <= runs[t].attempts
    /\ \A i \in 1..Len(dumps) : dumps[i].run # t

\* C28 as stated: after a restart between a call's os.makedirs and its first
\* dump, the dumps of the call fail and are absorbed, whatever its folder.
C28_Original == \A t \in Threads : ResetBeforeWrite(t) => NothingTrained(t)

\* C28, amended: when the folder of the call is the folder of a session and
\* no other call has made it again, the dumps of the call fail and are
\* absorbed: the call goes on and returns with empty results and
\* trained_models, and none of its artifacts exists.
C28_SessionFolderGone ==
    \A t \in Threads :
        (ResetBeforeWrite(t) /\ Len(runs[t].folder) = 2 /\ ~runs[t].remade) =>
            NothingTrained(t)

\* a call for a session lost the dumps of its two fitted models to a restart
\* and returned
C28_Witness ==
    \E t \in Threads :
        /\ ResetBeforeWrite(t) /\ Len(runs[t].folder) = 2 /\ ~runs[t].remade
        /\ runs[t].pc = "returned" /\ runs[t].lost = 2
        /\ runs[t].results = <<>>
        /\ <<runs[t].folder>> \notin files

\* a call into "models" dumped after the restart, which had made "models"
\* again: its artifact exists after the restart
C28_ArtifactAfterReset ==
    \E t \in Threads :
        /\ ResetBeforeWrite(t) /\ runs[t].folder = ModelsDir
        /\ runs[t].pc = "returned" /\ runs[t].results # <<>>
        /\ \E i \in 1..Len(dumps) : dumps[i].run = t /\ dumps[i].path \in files

\* the dumps i < j of one model name into one folder by two calls
SameArtifactName(i, j) ==
    /\ i < j
    /\ dumps[i].run # dumps[j].run
    /\ dumps[i].model = dumps[j].model
    /\ dumps[i].path[1] = dumps[j].path[1]

\* the last dump to the path of dump i
LastDumpTo(i) ==
    CHOOSE j \in 1..Len(dumps) :
        /\ dumps[j].path = dumps[i].path
        /\ \A k \in 1..Len(dumps) : dumps[k].path = dumps[i].path => k <= j

\* C29: an artifact is named by its model and the whole second of its dump.
\* Two calls that dump the same model name into the same folder at different
\* seconds write two files, and both stay while no restart removes them; at
\* the same second they write the same file, which then holds what the later
\* call dumped, and both calls return the same file name for the model.
C29_ArtifactNames ==
    /\ \A i \in 1..Len(dumps) :
         /\ dumps[i].path[2] = <<dumps[i].model, dumps[i].at, ".pkl">>
         /\ runs[dumps[i].run].trained_models[dumps[i].model] = dumps[i].path[2]
         /\ dumps[i].path \in files => contents[dumps[i].path] = dumps[LastDumpTo(i)].run
         /\ dumps[i].resets = reset.n => dumps[i].path \in files
    /\ \A i, j \in 1..Len(dumps) :
         SameArtifactName(i, j) =>
            IF dumps[i].at # dumps[j].at
            THEN dumps[i].path # dumps[j].path
            ELSE /\ dumps[i].path = dumps[j].path
                 /\ runs[dumps[i].run].trained_models[dumps[i].model] =
                        runs[dumps[j].run].trained_models[dumps[j].model]
                 /\ dumps[j].path \in files => contents[dumps[j].path] # dumps[i].run

\* two calls dumped LinearRegression into the same folder within one second
\* and returned: one file, holding the later dump, and one reference
C29_Witness ==
    \E i, j \in 1..Len(dumps) :
        /\ SameArtifactName(i, j) /\ dumps[i].at = dumps[j].at
        /\ dumps[i].path = dumps[j].path /\ dumps[j].path \in files
        /\ contents[dumps[j].path] = dumps[j].run
        /\ \A t \in Threads : runs[t].pc = "returned"
        /\ runs[1].trained_models = runs[2].trained_models

\* two calls dumped LinearRegression into the same folder at different
\* seconds: two files exist
C29_WitnessApart ==
    \E i, j \in 1..Len(dumps) :
        /\ SameArtifactName(i, j) /\ dumps[i].at # dumps[j].at
        /\ dumps[i].path \in files /\ dumps[j].path \in files
        /\ runs[dumps[i].run].trained_models[dumps[i].model] #
               runs[dumps[j].run].trained_models[dumps[j].model]

====
